---------------------------- MODULE Spec2Model ----------------------------
(***************************************************************************)
(* A model of johnnydecimal.py: the address grammar (util.py), the filing  *)
(* tree read from the filesystem (models.py), the cascading policy engine  *)
(* (policy.py), the scope guard (scope.py) and the mutating commands of    *)
(* the command line (cli.py).                                               *)
(*                                                                         *)
(* Strings are sequences of one-character strings, so that every regular   *)
(* expression, prefix test, int() and format call of the source is         *)
(* computed character by character.  The digits are the ASCII digits.  A   *)
(* pattern or an argument may end in a line feed, where "$" of the re      *)
(* module matches too (AtEnd); the names of the filesystem hold none.      *)
(*                                                                         *)
(* Where an operator uses an intermediate value several times it binds the *)
(* value to a name with Only({ .. : name \in {value}}), which is           *)
(* "name = value; .." of the source: the value is computed once.           *)
(***************************************************************************)
EXTENDS Integers, Sequences, FiniteSets, TLC

VARIABLES fs, scope, outside, hist, steps, call, env, heap

vars == <<fs, scope, outside, hist, steps, call, env, heap>>

\* the element of a one-element set
Only(S) == CHOOSE r \in S : TRUE

---------------------------------------------------------------------------
(* Characters and strings                                                  *)

\* the en dash U+2013, one character of the alphabet
EnDash == "EN"

DigitChars == <<"0", "1", "2", "3", "4", "5", "6", "7", "8", "9">>

\* the Arabic-Indic digit three U+0663, one character of the alphabet: a
\* decimal digit for \d of the re module, for int() and for str.isdigit()
ArabicThree == "U+0663"

IsDigit(c) == c \in {"0", "1", "2", "3", "4", "5", "6", "7", "8", "9", ArabicThree}

DigitVal(c) == IF c = ArabicThree THEN 3
               ELSE (CHOOSE i \in 1..10 : DigitChars[i] = c) - 1

\* \s of the re module, over the alphabet of the model
IsSpace(c) == c \in {" ", "\t", "\n"}

\* the characters of the model in code-point order (what sorted() compares)
CharOrder ==
    <<"\t", "\n", " ", "*", "-", ".", "0", "1", "2", "3", "4", "5", "6", "7", "8", "9",
      "A", "B", "C", "D", "E", "F", "G", "H", "I", "J", "K", "L", "M", "N",
      "O", "P", "Q", "R", "S", "T", "U", "V", "W", "X", "Y", "Z",
      "_",
      "a", "b", "c", "d", "e", "f", "g", "h", "i", "j", "k", "l", "m", "n",
      "o", "p", "q", "r", "s", "t", "u", "v", "w", "x", "y", "z",
      ArabicThree, EnDash>>

Ord(c) == CHOOSE i \in 1..Len(CharOrder) : CharOrder[i] = c

\* s < t for Python strings
StrLess(s, t) ==
    \E a \in {s}, b \in {t} :
        \E k \in 1..Len(b) :
            /\ k <= Len(a) + 1
            /\ SubSeq(a, 1, k - 1) = SubSeq(b, 1, k - 1)
            /\ k = Len(a) + 1 \/ (a[k] # b[k] /\ Ord(a[k]) < Ord(b[k]))

\* str.startswith
StartsWith(s, p) == Len(s) >= Len(p) /\ SubSeq(s, 1, Len(p)) = p

\* the rest of s from position i on
From(s, i) == SubSeq(s, i, Len(s))

\* \d{2} at position i of s
D2At(s, i) == Len(s) >= i + 1 /\ IsDigit(s[i]) /\ IsDigit(s[i + 1])

\* int() of two digits at position i
Int2At(s, i) == 10 * DigitVal(s[i]) + DigitVal(s[i + 1])

CharAt(s, i, c) == Len(s) >= i /\ s[i] = c

\* "$" at position i of s: the end of s, or the line feed that ends s
AtEnd(s, i) == i = Len(s) + 1 \/ (i = Len(s) /\ s[i] = "\n")

\* \d{2}\.\d{2} at the start of s
DottedAt(s) == D2At(s, 1) /\ CharAt(s, 3, ".") /\ D2At(s, 4)

\* str(n) for n >= 0
RECURSIVE Str(_)
Str(n) == IF n < 10 THEN <<DigitChars[n + 1]>>
          ELSE Str(n \div 10) \o <<DigitChars[(n % 10) + 1]>>

\* f"{n:02d}" for n >= 0
Fmt02(n) == IF n < 10 THEN <<"0">> \o Str(n) ELSE Str(n)

\* int(s) succeeds: s is a run of digits (signs, blanks and underscores are not
\* in the command lines of the model)
IntOk(s) == Len(s) >= 1 /\ \A i \in 1..Len(s) : IsDigit(s[i])

RECURSIVE IntOf(_)
IntOf(s) == IF s = <<>> THEN 0
            ELSE 10 * IntOf(SubSeq(s, 1, Len(s) - 1)) + DigitVal(s[Len(s)])

\* str.rstrip
RECURSIVE RStrip(_)
RStrip(s) == IF s # <<>> /\ IsSpace(s[Len(s)]) THEN RStrip(SubSeq(s, 1, Len(s) - 1))
             ELSE s

\* str.strip
RECURSIVE LStrip(_)
LStrip(s) == IF s # <<>> /\ IsSpace(Head(s)) THEN LStrip(Tail(s)) ELSE s

Strip(s) == RStrip(LStrip(s))

---------------------------------------------------------------------------
(* util.py: the address grammar                                            *)

parse_ok(id_str) == DottedAt(id_str)

parse_jd_id_string(id_str) == <<Int2At(id_str, 1), Int2At(id_str, 4)>>

format_jd_id(category, sequence) == Fmt02(category) \o <<".">> \o Fmt02(sequence)

\* ".+" at position i of s: a character that is no line feed
DotPlusAt(s, i) == Len(s) >= i /\ s[i] # "\n"

\* re.match(r"\d{2}[-EnDash]\d{2} .+", name)
AreaName(name) ==
    /\ D2At(name, 1)
    /\ Len(name) >= 3 /\ name[3] \in {"-", EnDash}
    /\ D2At(name, 4)
    /\ CharAt(name, 6, " ")
    /\ DotPlusAt(name, 7)

\* the three re.match calls of is_jd_category
CategoryName(name) ==
    /\ ~(D2At(name, 1) /\ Len(name) >= 3 /\ name[3] \in {"-", EnDash}
         /\ D2At(name, 4) /\ CharAt(name, 6, " "))
    /\ ~(DottedAt(name) /\ CharAt(name, 6, " "))
    /\ D2At(name, 1) /\ CharAt(name, 3, " ") /\ DotPlusAt(name, 4)

\* re.match(r"\d{2}\.\d{2}($| .+)", name)
IdName(name) ==
    /\ DottedAt(name)
    /\ \/ AtEnd(name, 6)
       \/ CharAt(name, 6, " ") /\ DotPlusAt(name, 7)

---------------------------------------------------------------------------
(* The filesystem below the root of the filing system.  A path is the      *)
(* sequence of names from the root down (the root is the empty path); fs   *)
(* maps every existing path to its entry.  A policy.yaml file carries its  *)
(* parsed content in doc.                                                  *)

NoDoc == [form |-> "none"]

DirEntry == [kind |-> "dir", doc |-> NoDoc]

FileEntry == [kind |-> "file", doc |-> NoDoc]

\* a symbolic link whose target does not resolve, and one that resolves to a
\* directory (the entries below it are the target's)
BrokenLink == [kind |-> "broken", doc |-> NoDoc, link |-> TRUE]

DirLink == [kind |-> "dir", doc |-> NoDoc, link |-> TRUE]

\* Path.name, Path.parent, Path / name
NameOf(p) == Only({q[Len(q)] : q \in {p}})

Parent(p) == SubSeq(p, 1, Len(p) - 1)

Join(p, name) == Append(p, name)

\* the result of a lookup that found nothing
None == << <<>> >>

\* Path.exists, Path.is_dir
\* Path.exists and Path.is_dir follow symbolic links
exists(f, p) == p \in DOMAIN f /\ f[p].kind # "broken"

is_dir(f, p) == p \in DOMAIN f /\ f[p].kind = "dir"

is_symlink(f, p) == p \in DOMAIN f /\ "link" \in DOMAIN f[p]

is_symlink_valid(f, p) == is_symlink(f, p) => f[p].kind # "broken"

\* Path.iterdir, as a set: the order of a listing is the operating system's
iterdir(f, p) ==
    Only({ {q \in DOMAIN f : Len(q) = Len(d) + 1 /\ SubSeq(q, 1, Len(d)) = d} : d \in {p} })

\* everything at or below p
Subtree(f, p) == Only({ {q \in DOMAIN f : StartsWith(q, d)} : d \in {p} })

\* Path.mkdir on a path that does not exist
mkdir(f, p) ==
    Only({ [q \in DOMAIN g \cup {d} |-> IF q = d THEN DirEntry ELSE g[q]] :
           g \in {f}, d \in {p} })

\* Path.rmdir, Path.unlink
remove(f, p) == Only({ [q \in DOMAIN g \ {d} |-> g[q]] : g \in {f}, d \in {p} })

\* where q lands when old is renamed to new
Moved(q, old, new) == IF StartsWith(q, old) THEN new \o From(q, Len(old) + 1) ELSE q

\* os.rename refuses: a directory into itself, a directory onto a file or a
\* non-empty directory, a file onto a directory
rename_fails(f, old_path, new_path) ==
    \E g \in {f}, old \in {old_path}, new \in {new_path} :
        /\ new # old
        /\ \/ StartsWith(new, old)
           \/ /\ exists(g, new)
              /\ \/ is_dir(g, old) /\ ~is_dir(g, new)
                 \/ ~is_dir(g, old) /\ is_dir(g, new)
                 \/ is_dir(g, new) /\ iterdir(g, new) # {}

\* os.rename(old, new) when it does not refuse: an existing file, or an
\* existing empty directory, at new is replaced
rename(f, old_path, new_path) ==
    Only({ LET keep == {q \in DOMAIN g : ~StartsWith(q, old) /\ q # new}
               gone == Subtree(g, old)
           IN  [q \in keep \cup {Moved(x, old, new) : x \in gone} |->
                   IF \E x \in gone : Moved(x, old, new) = q
                   THEN g[CHOOSE x \in gone : Moved(x, old, new) = q]
                   ELSE g[q]] :
           g \in {f}, old \in {old_path}, new \in {new_path} })

\* sorted(): the names of a set of siblings in ascending order
Sorted(S) ==
    Only({ [k \in 1..Cardinality(T) |->
               CHOOSE x \in T :
                   Cardinality({y \in T : StrLess(NameOf(y), NameOf(x))}) = k - 1] :
           T \in {S} })

RECURSIVE Concat(_)
Concat(ss) ==
    Only({ IF t = <<>> THEN <<>> ELSE Head(t) \o Concat(Tail(t)) : t \in {ss} })

SelectFirst(s, Test(_)) ==
    Only({ IF \E i \in 1..Len(t) : Test(t[i])
           THEN t[CHOOSE i \in 1..Len(t) : Test(t[i]) /\ \A j \in 1..(i - 1) : ~Test(t[j])]
           ELSE None : t \in {s} })

Range(s) == Only({ {t[i] : i \in 1..Len(t)} : t \in {s} })

---------------------------------------------------------------------------
(* util.py: classification of a directory entry                            *)

is_jd_area(f, p) == is_dir(f, p) /\ AreaName(NameOf(p))

\* is_jd_category asking for two digits and any text
is_jd_category_loose(f, p) ==
    is_dir(f, p) /\ D2At(NameOf(p), 1) /\ DotPlusAt(NameOf(p), 3)

is_jd_category(f, p) == is_dir(f, p) /\ CategoryName(NameOf(p))

is_jd_id(f, p) == is_dir(f, p) /\ IdName(NameOf(p))

is_jd_id_file(f, p) == ~is_dir(f, p) /\ IdName(NameOf(p))

---------------------------------------------------------------------------
(* models.py: the filing tree, read from the filesystem on every load.     *)
(* An area, a category and an ID are named by their paths; their numbers   *)
(* and names are parsed from the last name of the path, as the             *)
(* constructors do.                                                        *)

\* JDSystem._get_areas
areas(f) ==
    Sorted({p \in iterdir(f, <<>>) :
               is_jd_area(f, p) /\ ~(is_symlink(f, p) /\ ~is_symlink_valid(f, p))})

\* JDArea.__init__
area_number(a) == Int2At(NameOf(a), 1)

area_end_number(a) == Int2At(NameOf(a), 4)

\* JDArea._get_categories
categories(f, a) ==
    Sorted({p \in iterdir(f, a) :
               is_jd_category(f, p) /\ ~(is_symlink(f, p) /\ ~is_symlink_valid(f, p))})

\* JDCategory.__init__
cat_number(c) == Int2At(NameOf(c), 1)

\* JDCategory._get_ids
ids(f, c) ==
    Sorted({p \in iterdir(f, c) :
               IF is_jd_id(f, p) THEN ~(is_symlink(f, p) /\ ~is_symlink_valid(f, p))
               ELSE is_jd_id_file(f, p)})

\* JDID.__init__: the category number, the sequence and the name
id_cat_number(i) == Int2At(NameOf(i), 1)

sequence(i) == Int2At(NameOf(i), 4)

id_name(i) ==
    LET n == NameOf(i)
        rest == From(n, 6)
    IN  IF Len(n) <= 5 \/ ~IsSpace(n[6]) THEN <<>>
        ELSE IF LStrip(rest) # <<>> THEN LStrip(rest)
        ELSE IF Len(rest) >= 2 THEN <<rest[Len(rest)]>>
        ELSE <<>>

\* JDID.id_str
id_str(i) == Fmt02(id_cat_number(i)) \o <<".">> \o Fmt02(sequence(i))

\* every category of the tree, in tree order
all_categories(f) ==
    Only({ Concat([k \in 1..Len(as) |-> categories(f, as[k])]) : as \in {areas(f)} })

\* JDSystem.all_ids
all_ids(f) ==
    Only({ Concat([k \in 1..Len(cs) |-> ids(f, cs[k])]) : cs \in {all_categories(f)} })

\* JDSystem.find_by_id
find_by_id(f, s) ==
    Only({ LET Hit(i) == id_str(i) = t IN SelectFirst(all_ids(f), Hit) : t \in {s} })

\* JDSystem.find_by_category
find_by_category(f, n) ==
    Only({ LET Hit(c) == cat_number(c) = m IN SelectFirst(all_categories(f), Hit) :
           m \in {n} })

\* next_id searching from 0
next_id_from_zero(f, c) ==
    Only({ IF \E n \in 0..99 : n \notin used
           THEN CHOOSE n \in 0..99 : n \notin used /\ \A m \in 0..(n - 1) : m \in used
           ELSE 0 :
           used \in { {sequence(i) : i \in Range(ids(f, c))} } })

\* JDCategory.next_id; 0 stands for the ValueError of a full category
next_id(f, c) ==
    Only({ IF \E n \in 1..99 : n \notin used
           THEN CHOOSE n \in 1..99 : n \notin used /\ \A m \in 1..(n - 1) : m \in used
           ELSE 0 :
           used \in { {sequence(i) : i \in Range(ids(f, c))} } })

---------------------------------------------------------------------------
(* scope.py: the scope guard.  The loaded scope is Unrestricted (None) or  *)
(* a list of patterns.                                                     *)

\* the process environment: the value of JD_AGENT_SCOPE (<<>> when unset or
\* empty) and, for each manifest file that exists, what yaml.safe_load reads
NoEnv == [JD_AGENT_SCOPE |-> <<>>, manifests |-> [p \in {} |-> <<>>]]

Unrestricted == [restricted |-> FALSE, patterns |-> <<>>]

ScopeList(ps) == [restricted |-> TRUE, patterns |-> ps]

\* _extract_number; -1 stands for None
extract_number(target) ==
    IF DottedAt(target) /\ AtEnd(target, 6) THEN Int2At(target, 1)
    ELSE IF D2At(target, 1) /\ AtEnd(target, 3) THEN Int2At(target, 1)
    ELSE IF D2At(target, 1) /\ CharAt(target, 3, "-") /\ D2At(target, 4) /\ AtEnd(target, 6)
         THEN Int2At(target, 1)
    ELSE -1

\* one turn of the loop of is_in_scope
pattern_allows(target, raw) ==
    LET pattern == Strip(raw)
        num == extract_number(target)
    IN  IF D2At(pattern, 1) /\ CharAt(pattern, 3, "-") /\ D2At(pattern, 4) /\ AtEnd(pattern, 6)
        THEN num # -1 /\ Int2At(pattern, 1) <= num /\ num <= Int2At(pattern, 4)
        ELSE IF D2At(pattern, 1) /\ AtEnd(pattern, 3)
        THEN \/ num # -1 /\ num = IntOf(pattern)
             \/ StartsWith(target, pattern \o <<".">>)
        ELSE IF DottedAt(pattern) /\ AtEnd(pattern, 6)
        THEN target = pattern
        ELSE FALSE

is_in_scope(target, patterns) ==
    \E k \in 1..Len(patterns) : pattern_allows(target, patterns[k])

\* the message of a denial: f"Out of scope: {target} is not in agent scope {scope}"
OutOfScope(target, patterns) == <<"Out of scope", target, patterns>>

\* check_scope that gives no message with a denial
check_scope_silent(sc, target) ==
    IF ~sc.restricted THEN <<TRUE, None>>
    ELSE <<is_in_scope(target, sc.patterns), None>>

\* check_scope on the loaded scope sc: (allowed, message)
check_scope(sc, target) ==
    IF ~sc.restricted THEN <<TRUE, None>>
    ELSE IF is_in_scope(target, sc.patterns) THEN <<TRUE, None>>
    ELSE <<FALSE, OutOfScope(target, sc.patterns)>>

\* enforce_scope: TRUE when the command goes on, FALSE when it exits
enforce_scope(sc, target) == check_scope(sc, target)[1]

---------------------------------------------------------------------------
(* policy.py: values.  A YAML value is a scalar [v |-> ..], a sequence     *)
(* [s |-> ..] or a mapping [m |-> ..] from keys to values; isinstance(x,   *)
(* dict) is IsMap(x).  A mapping itself is a function from its keys.       *)

V(x) == [v |-> x]

L(x) == [s |-> x]

\* an integer scalar
N(x) == [n |-> x]

M(x) == [m |-> x]

IsMap(x) == "m" \in DOMAIN x

EmptyMap == [k \in {} |-> V("")]

\* result[key] = value
Put(map, key, value) ==
    Only({ [k \in DOMAIN m \cup {key} |-> IF k = key THEN x ELSE m[k]] :
           m \in {map}, x \in {value} })

\* DEFAULTS
DEFAULTS ==
    [conventions |->
        M([meta_category |-> V("true"),
           meta_id |-> V("true"),
           unsorted_id |-> V("true"),
           ids_files_only |-> V("false"),
           ids_as_files |-> V("false"),
           capture_category |-> V("01"),
           naming |-> M([separator |-> V("-"),
                         case |-> V("sentence"),
                         no_trailing_spaces |-> V("true"),
                         no_special_chars |-> V("true")])]),
     ignore |-> L(<<".DS_Store", ".git", "__pycache__", ".Trash", "*.pyc">>)]

\* POLICY_FILENAME
POLICY_FILENAME == <<"p", "o", "l", "i", "c", "y", ".", "y", "a", "m", "l">>

\* deep_merge: result = base.copy(), then one turn of the loop per key of
\* override (merge_items), recursing where both sides hold a dict
RECURSIVE deep_merge(_, _)
RECURSIVE merge_items(_, _, _)
RECURSIVE merge_items_extend(_, _, _)
\* the loop of deep_merge if two lists under one key were joined
merge_items_extend(result, override, keys) ==
    Only({ IF ks = {} THEN r
           ELSE LET key == CHOOSE k \in ks : TRUE
                    value == o[key]
                IN  merge_items_extend(
                        IF key \in DOMAIN r /\ IsMap(r[key]) /\ IsMap(value)
                        THEN Put(r, key, M(deep_merge(r[key].m, value.m)))
                        ELSE IF key \in DOMAIN r /\ "s" \in DOMAIN r[key]
                                /\ "s" \in DOMAIN value
                        THEN Put(r, key, L(r[key].s \o value.s))
                        ELSE Put(r, key, value),
                        o, ks \ {key}) :
           r \in {result}, o \in {override}, ks \in {keys} })

merge_items(result, override, keys) ==
    Only({ IF ks = {} THEN r
           ELSE LET key == CHOOSE k \in ks : TRUE
                    value == o[key]
                IN  merge_items(
                        IF key \in DOMAIN r /\ IsMap(r[key]) /\ IsMap(value)
                        THEN Put(r, key, M(deep_merge(r[key].m, value.m)))
                        ELSE Put(r, key, value),
                        o, ks \ {key}) :
           r \in {result}, o \in {override}, ks \in {keys} })

deep_merge(base, override) ==
    Only({ merge_items(base, o, DOMAIN o) : o \in {override} })

\* match_pattern
match_pattern(pattern, dir_name) ==
    IF CharAt(pattern, 1, "*") /\ CharAt(pattern, 2, ".") /\ D2At(pattern, 3) /\ AtEnd(pattern, 5)
    THEN /\ D2At(dir_name, 1) /\ CharAt(dir_name, 3, ".")
         /\ Len(dir_name) >= 5 /\ SubSeq(dir_name, 4, 5) = SubSeq(pattern, 3, 4)
         /\ (AtEnd(dir_name, 6) \/ IsSpace(dir_name[6]))
    ELSE IF pattern = <<"x", "0">>
    THEN /\ Len(dir_name) >= 3 /\ IsDigit(dir_name[1]) /\ dir_name[2] = "0"
         /\ IsSpace(dir_name[3])
         /\ dir_name[1] # "0"
    ELSE IF DottedAt(pattern) /\ AtEnd(pattern, 6)
    THEN StartsWith(dir_name, pattern)
    ELSE IF D2At(pattern, 1) /\ AtEnd(pattern, 3)
    THEN /\ StartsWith(dir_name, pattern) /\ Len(dir_name) > Len(pattern)
         /\ IsSpace(dir_name[Len(pattern) + 1])
    ELSE FALSE

\* the name of the directory that holds the filing system
RootName == <<"D", "o", "c", "s">>

\* Path.name, for the root too
PathName(p) == IF p = <<>> THEN RootName ELSE NameOf(p)

\* the orders in which the operating system may list a directory
Listings == {"ascending", "descending"}

Reverse(s) == [k \in 1..Len(s) |-> s[Len(s) + 1 - k]]

\* Path.iterdir as the sequence the loop sees under listing order l
listdir(f, p, l) ==
    Only({ IF l = "ascending" THEN s ELSE Reverse(s) : s \in {Sorted(iterdir(f, p))} })

\* find_meta_dir with the area's meta category taken to be x1, not x0
find_meta_dir_x1(f, dir_path, l) ==
    Only({
    LET name == PathName(path)
    IN  IF DottedAt(name) /\ AtEnd(name, 6) /\ SubSeq(name, 4, 5) = <<"0", "0">>
        THEN path
        ELSE IF DottedAt(name)
        THEN LET meta == Join(Parent(path), SubSeq(name, 1, 2) \o <<".", "0", "0">>)
             IN  IF exists(f, meta) THEN meta ELSE None
        ELSE IF D2At(name, 1) /\ CharAt(name, 3, " ")
        THEN LET meta == Join(path, SubSeq(name, 1, 2) \o <<".", "0", "0">>)
             IN  IF exists(f, meta) THEN meta ELSE None
        ELSE IF /\ D2At(name, 1) /\ Len(name) >= 3 /\ name[3] \in {"-", EnDash}
                /\ D2At(name, 4) /\ CharAt(name, 6, " ")
        THEN LET meta_cat_num == <<name[1], "1">>
                 Hit(child) == is_dir(f, child)
                               /\ StartsWith(NameOf(child), meta_cat_num \o <<" ">>)
                 child == SelectFirst(listdir(f, path, l), Hit)
                 meta == Join(child, meta_cat_num \o <<".", "0", "0">>)
             IN  IF child = None THEN None
                 ELSE IF exists(f, meta) THEN meta ELSE None
        ELSE None :
    path \in {dir_path} })

\* find_meta_dir, under listing order l
find_meta_dir(f, dir_path, l) ==
    Only({
    LET name == PathName(path)
    IN  IF DottedAt(name) /\ AtEnd(name, 6) /\ SubSeq(name, 4, 5) = <<"0", "0">>
        THEN path
        ELSE IF DottedAt(name)
        THEN LET meta == Join(Parent(path), SubSeq(name, 1, 2) \o <<".", "0", "0">>)
             IN  IF exists(f, meta) THEN meta ELSE None
        ELSE IF D2At(name, 1) /\ CharAt(name, 3, " ")
        THEN LET meta == Join(path, SubSeq(name, 1, 2) \o <<".", "0", "0">>)
             IN  IF exists(f, meta) THEN meta ELSE None
        ELSE IF /\ D2At(name, 1) /\ Len(name) >= 3 /\ name[3] \in {"-", EnDash}
                /\ D2At(name, 4) /\ CharAt(name, 6, " ")
        THEN LET meta_cat_num == <<name[1], "0">>
                 Hit(child) == is_dir(f, child)
                               /\ StartsWith(NameOf(child), meta_cat_num \o <<" ">>)
                 child == SelectFirst(listdir(f, path, l), Hit)
                 meta == Join(child, meta_cat_num \o <<".", "0", "0">>)
             IN  IF child = None THEN None
                 ELSE IF exists(f, meta) THEN meta ELSE None
        ELSE LET IsMetaArea(a) ==
                     /\ is_dir(f, a) /\ Len(NameOf(a)) >= 6
                     /\ SubSeq(NameOf(a), 1, 2) = <<"0", "0">>
                     /\ NameOf(a)[3] \in {"-", EnDash}
                     /\ SubSeq(NameOf(a), 4, 6) = <<"0", "9", " ">>
                 top == listdir(f, path, l)
                 metas == Concat([i \in 1..Len(top) |->
                            IF IsMetaArea(top[i]) THEN listdir(f, top[i], l) ELSE <<>>])
                 Hit(c) == /\ is_dir(f, c) /\ StartsWith(NameOf(c), <<"0", "0", " ">>)
                           /\ exists(f, Join(c, <<"0", "0", ".", "0", "0">>))
                 cat == SelectFirst(metas, Hit)
             IN  IF cat = None THEN None ELSE Join(cat, <<"0", "0", ".", "0", "0">>) :
    path \in {dir_path} })

\* a parsed policy.yaml: the keys other than "patterns" (base) and the
\* "patterns" mapping in document order, each entry a pattern and its
\* payload (a value: a mapping, a list or a scalar)
PolicyDoc(base, patterns) == [form |-> "map", base |-> base, patterns |-> patterns]

\* a policy.yaml that yaml.safe_load raises YAMLError on
Unparseable == [form |-> "unparseable"]

\* a policy.yaml that parses to a non-empty YAML sequence
SequenceDoc == [form |-> "sequence"]

\* an exception that leaves resolve_policy
Raised(e) == [raised |-> V(e)]

IsRaised(x) == "raised" \in DOMAIN x

\* load_policy_file; NoDoc stands for None.  What safe_load returns is
\* returned whatever its type
load_policy_file(f, path, l) ==
    Only({ LET policy_path == Join(meta, POLICY_FILENAME)
           IN  IF meta # None /\ exists(f, policy_path)
                  /\ f[policy_path].doc.form \in {"map", "sequence"}
               THEN f[policy_path].doc
               ELSE NoDoc :
           meta \in {find_meta_dir(f, path, l)} })

\* the chain without chain.reverse(): the target first
chain_target_first(path) == [k \in 1..(Len(path) + 1) |-> SubSeq(path, 1, Len(path) + 1 - k)]

\* the chain of resolve_policy, root first
chain(path) == [k \in 1..(Len(path) + 1) |-> SubSeq(path, 1, k - 1)]

\* the inner loop of resolve_policy over the patterns of one document
RECURSIVE apply_patterns(_, _, _)
apply_patterns(effective, patterns, target_name) ==
    Only({ IF ps = <<>> \/ IsRaised(e) THEN e
           ELSE LET pattern == Head(ps).pattern
                    pattern_policy == Head(ps).payload
                IN  apply_patterns(
                        IF ~match_pattern(pattern, target_name) THEN e
                        ELSE IF pattern_policy = V("null")
                        THEN \* "conventions" not in None
                             Raised("TypeError")
                        ELSE IF ~IsMap(pattern_policy)
                        THEN \* a string or a list does not hold "conventions"
                             deep_merge(e, [conventions |-> pattern_policy])
                        ELSE deep_merge(e,
                                 IF "conventions" \notin DOMAIN pattern_policy.m
                                 THEN [conventions |-> pattern_policy]
                                 ELSE pattern_policy.m),
                        Tail(ps), target_name) :
           e \in {effective}, ps \in {patterns} })

\* one turn of the outer loop with the patterns tested against the name of
\* the chain directory
apply_level_dir_name(effective, f, dir_path, target_name, l) ==
    Only({ IF IsRaised(effective) \/ policy = NoDoc THEN effective
           ELSE IF policy = SequenceDoc
           THEN \* a list has no items()
                Raised("AttributeError")
           ELSE IF policy.base = EmptyMap /\ policy.patterns = <<>> THEN effective
           ELSE apply_patterns(
                    IF policy.base # EmptyMap THEN deep_merge(effective, policy.base)
                    ELSE effective,
                    policy.patterns, PathName(dir_path)) :
           policy \in {load_policy_file(f, dir_path, l)} })

\* one turn of the outer loop of resolve_policy
apply_level(effective, f, dir_path, target_name, l) ==
    Only({ IF IsRaised(effective) \/ policy = NoDoc THEN effective
           ELSE IF policy = SequenceDoc
           THEN \* a list has no items()
                Raised("AttributeError")
           ELSE IF policy.base = EmptyMap /\ policy.patterns = <<>> THEN effective
           ELSE apply_patterns(
                    IF policy.base # EmptyMap THEN deep_merge(effective, policy.base)
                    ELSE effective,
                    policy.patterns, target_name) :
           policy \in {load_policy_file(f, dir_path, l)} })

RECURSIVE apply_chain(_, _, _, _, _)
apply_chain(effective, f, dirs, target_name, l) ==
    Only({ IF ds = <<>> THEN e
           ELSE apply_chain(apply_level(e, f, Head(ds), target_name, l),
                            f, Tail(ds), target_name, l) :
           e \in {effective}, ds \in {dirs} })

\* resolve_policy(path, root) under listing order l
resolve_policy(f, path, l) ==
    Only({ apply_chain(DEFAULTS, f, chain(p), PathName(p), l) : p \in {path} })

---------------------------------------------------------------------------
(* policy.py on the heap.  A dict is an object [items |-> ..] whose items  *)
(* are cells: a scalar [v |-> ..] or a reference [ref |-> address] to a    *)
(* dict or to a list [elems |-> ..].  The heap is the sequence of the      *)
(* objects made so far; a store changes one object in place.               *)

\* the objects a value is made of, built on heap h: the heap that holds
\* them and the cell that stands for the value
RECURSIVE load(_, _)
RECURSIVE load_items(_, _, _, _)
load(h, val) ==
    IF "v" \in DOMAIN val THEN [heap |-> h, cell |-> val]
    ELSE IF "s" \in DOMAIN val
    THEN [heap |-> Append(h, [elems |-> val.s]), cell |-> [ref |-> Len(h) + 1]]
    ELSE Only({ [heap |-> Append(r.heap, [items |-> r.items]),
                 cell |-> [ref |-> Len(r.heap) + 1]] :
                r \in {load_items(h, val.m, DOMAIN val.m, EmptyMap)} })

load_items(h, m, keys, acc) ==
    IF keys = {} THEN [heap |-> h, items |-> acc]
    ELSE Only({ load_items(r.heap, m, keys \ {key}, Put(acc, key, r.cell)) :
                key \in {CHOOSE k \in keys : TRUE}, r \in {load(h, m[CHOOSE k \in keys : TRUE])} })

\* the value the object at address a stands for
RECURSIVE value_at(_, _)
value_at(h, a) ==
    [key \in DOMAIN h[a].items |->
        LET c == h[a].items[key]
        IN  IF "v" \in DOMAIN c THEN c
            ELSE IF "elems" \in DOMAIN h[c.ref] THEN L(h[c.ref].elems)
            ELSE M(value_at(h, c.ref))]

\* the heap once policy.py is imported: the objects of DEFAULTS
Heap0 == load(<<>>, M(DEFAULTS)).heap

\* where DEFAULTS is
DefaultsAt == Len(Heap0)

\* isinstance(x, dict) of what a cell holds
IsDictCell(h, c) == "ref" \in DOMAIN c /\ "items" \in DOMAIN h[c.ref]

\* result = base without copy(): the same object under a second name
dict_alias(h, a) == [heap |-> h, at |-> a]

\* d.copy(): a new dict object with the same cells
dict_copy(h, a) == [heap |-> Append(h, h[a]), at |-> Len(h) + 1]

\* d[key] = cell, on the object at address a
store(h, a, key, cell) ==
    [h EXCEPT ![a] = [items |-> Put(h[a].items, key, cell)]]

\* deep_merge(base, override) on the dicts at two addresses: the heap it
\* leaves and the address of the dict it returns
RECURSIVE deep_merge_at(_, _, _)
RECURSIVE merge_items_at(_, _, _, _)
merge_items_at(h, result, override, keys) ==
    IF keys = {} THEN [heap |-> h, at |-> result]
    ELSE LET key == CHOOSE k \in keys : TRUE
             value == h[override].items[key]
         IN  IF key \in DOMAIN h[result].items /\ IsDictCell(h, h[result].items[key])
                /\ IsDictCell(h, value)
             THEN Only({ merge_items_at(store(sub.heap, result, key, [ref |-> sub.at]),
                                        result, override, keys \ {key}) :
                         sub \in {deep_merge_at(h, h[result].items[key].ref, value.ref)} })
             ELSE merge_items_at(store(h, result, key, value), result, override,
                                 keys \ {key})

deep_merge_at(h, base, override) ==
    Only({ merge_items_at(r.heap, r.at, override, DOMAIN h[override].items) :
           r \in {dict_copy(h, base)} })

\* the inner loop of resolve_policy on the heap; st holds the heap, the
\* address of effective, and whether an exception left the function
RECURSIVE apply_patterns_at(_, _, _)
apply_patterns_at(st, patterns, target_name) ==
    IF patterns = <<>> \/ st.raised THEN st
    ELSE LET pattern == Head(patterns).pattern
             pattern_policy == Head(patterns).payload
         IN  apply_patterns_at(
                 IF ~match_pattern(pattern, target_name) THEN st
                 ELSE IF pattern_policy = V("null")
                 THEN [st EXCEPT !.raised = TRUE]
                 ELSE Only({
                     IF IsMap(pattern_policy) /\ "conventions" \in DOMAIN pattern_policy.m
                     THEN Only({ [heap |-> r.heap, at |-> r.at, raised |-> FALSE] :
                                 r \in {deep_merge_at(ld.heap, st.at, ld.cell.ref)} })
                     ELSE Only({ [heap |-> r.heap, at |-> r.at, raised |-> FALSE] :
                                 r \in {deep_merge_at(
                                           Append(ld.heap,
                                                  [items |-> [conventions |-> ld.cell]]),
                                           st.at, Len(ld.heap) + 1)} }) :
                     ld \in {load(st.heap, pattern_policy)} }),
                 Tail(patterns), target_name)

\* one turn of the outer loop of resolve_policy on the heap
apply_level_at(st, f, dir_path, target_name, l) ==
    Only({ IF st.raised \/ policy = NoDoc THEN st
           ELSE IF policy = SequenceDoc THEN [st EXCEPT !.raised = TRUE]
           ELSE IF policy.base = EmptyMap /\ policy.patterns = <<>> THEN st
           ELSE apply_patterns_at(
                    IF policy.base # EmptyMap
                    THEN Only({ [heap |-> r.heap, at |-> r.at, raised |-> FALSE] :
                                r \in {Only({ deep_merge_at(ld.heap, st.at, ld.cell.ref) :
                                              ld \in {load(st.heap, M(policy.base))} })} })
                    ELSE st,
                    policy.patterns, target_name) :
           policy \in {load_policy_file(f, dir_path, l)} })

RECURSIVE apply_chain_at(_, _, _, _, _)
apply_chain_at(st, f, dirs, target_name, l) ==
    IF dirs = <<>> THEN st
    ELSE Only({ apply_chain_at(next, f, Tail(dirs), target_name, l) :
                next \in {apply_level_at(st, f, Head(dirs), target_name, l)} })

\* resolve_policy(path, root) on heap h: effective = DEFAULTS.copy(), then
\* the documents of the chain
resolve_policy_at(h, f, path, l) ==
    Only({ apply_chain_at([heap |-> e.heap, at |-> e.at, raised |-> FALSE],
                          f, chain(path), PathName(path), l) :
           e \in {dict_copy(h, DefaultsAt)} })

---------------------------------------------------------------------------
(* cli.py: the mutating commands.  Each command is an operator from the    *)
(* filesystem f, the loaded scope sc and the command line to its outcome:  *)
(* the filesystem it leaves, how it ended ("ok", "error": a message and    *)
(* exit 1, "denied": enforce_scope exits, "crash": an uncaught exception), *)
(* the targets enforce_scope allowed, the addresses it wrote to, and the   *)
(* destination path and ID it computed (None, <<>> when it has none).      *)

Out(f, out, checked, wrote, dst_path, dst_id, intent) ==
    [fs |-> f, out |-> out, checked |-> checked, wrote |-> wrote,
     dst_path |-> dst_path, dst_id |-> dst_id, intent |-> intent]

Stop(f, out, checked, intent) == Out(f, out, checked, {}, None, <<>>, intent)

\* "no --at option"
NoNumber == -1

Unsorted == <<"U", "n", "s", "o", "r", "t", "e", "d">>

Archive == <<"A", "r", "c", "h", "i", "v", "e">>

\* get_convention(policy, key, False) for a top-level convention key, as a truth value
get_convention(policy, key) ==
    /\ "conventions" \in DOMAIN policy
    /\ IsMap(policy.conventions)
    /\ key \in DOMAIN policy.conventions.m
    /\ policy.conventions.m[key] = V("true")

\* jd new id CATEGORY NAME [--at SEQ]
new_id(f, sc, category, name, explicit_seq) ==
    IF ~IntOk(category) THEN Stop(f, "crash", {}, "new_id")
    ELSE
    LET cat_num == IntOf(category)
        cat == find_by_category(f, cat_num)
        seq == IF explicit_seq # NoNumber THEN explicit_seq ELSE next_id(f, cat)
        new_id_str == format_jd_id(cat_num, seq)
        new_path == Join(cat, new_id_str \o <<" ">> \o name)
        ok == {Str(cat_num)}
    IN  IF ~enforce_scope(sc, Str(cat_num)) THEN Stop(f, "denied", {}, "new_id")
        ELSE IF cat = None THEN Stop(f, "error", ok, "new_id")
        ELSE IF explicit_seq # NoNumber /\ find_by_id(f, new_id_str) # None
        THEN Out(f, "error", ok, {}, new_path, new_id_str, "new_id")
        ELSE IF explicit_seq = NoNumber /\ seq = 0 THEN Stop(f, "crash", ok, "new_id")
        ELSE IF exists(f, new_path)
        THEN Out(f, "crash", ok, {}, new_path, new_id_str, "new_id")
        ELSE Out(mkdir(f, new_path), "ok", ok, {Str(cat_num)}, new_path, new_id_str,
                 "new_id")

\* the first free category number of an area above its x0; -1 when there is none
next_category(f, area) ==
    LET used == {cat_number(c) : c \in Range(categories(f, area))}
        free == {n \in (area_number(area) + 1)..area_end_number(area) : n \notin used}
    IN  IF free = {} THEN -1 ELSE CHOOSE n \in free : \A m \in free : n <= m

\* the area whose band holds number n
area_of(f, n) ==
    LET Hit(a) == area_number(a) <= n /\ n <= area_end_number(a)
    IN  SelectFirst(areas(f), Hit)

\* jd new category AREA NAME [--at NUM] [--init/--no-init]
new_category(f, sc, area, name, explicit_num, init) ==
    IF ~IntOk(area) THEN Stop(f, "crash", {}, "new_category")
    ELSE
    LET area_num == IntOf(area)
        target_area == area_of(f, area_num)
        used_cats == {cat_number(c) : c \in Range(categories(f, target_area))}
        next_cat == IF explicit_num # NoNumber THEN explicit_num
                    ELSE next_category(f, target_area)
        new_path == Join(target_area, Fmt02(next_cat) \o <<" ">> \o name)
        ok == {Str(area_num)}
        made == mkdir(f, new_path)
        meta_path == Join(new_path, format_jd_id(next_cat, 0))
        unsorted_path == Join(new_path, format_jd_id(next_cat, 1) \o <<" ">> \o Unsorted)
    IN  IF ~enforce_scope(sc, Str(area_num)) THEN Stop(f, "denied", {}, "new_category")
        ELSE IF target_area = None THEN Stop(f, "error", ok, "new_category")
        ELSE IF explicit_num # NoNumber /\ explicit_num \in used_cats
        THEN Stop(f, "error", ok, "new_category")
        ELSE IF /\ explicit_num # NoNumber
                /\ ~(area_number(target_area) <= explicit_num
                     /\ explicit_num <= area_end_number(target_area))
        THEN Stop(f, "error", ok, "new_category")
        ELSE IF next_cat = -1 THEN Stop(f, "error", ok, "new_category")
        ELSE IF exists(f, new_path)
        THEN Out(f, "crash", ok, {}, new_path, <<>>, "new_category")
        ELSE Out(IF init THEN mkdir(mkdir(made, meta_path), unsorted_path) ELSE made,
                 "ok", ok, {Str(area_num)}, new_path, <<>>, "new_category")

\* jd add SOURCE ID [--copy]: the source is an entry outside the tree, named
\* source, of the given kind; the handler makes no call of enforce_scope
add(f, source, kind, id_str_arg, l) ==
    LET target == find_by_id(f, id_str_arg)
        policy == resolve_policy(f, target, l)
        dest == Join(target, source)
        entry == IF kind = "dir" THEN DirEntry ELSE FileEntry
    IN  IF target = None THEN Stop(f, "error", {}, "add")
        ELSE IF get_convention(policy, "ids_files_only") /\ kind = "dir"
        THEN Stop(f, "error", {}, "add")
        ELSE IF exists(f, dest) THEN Out(f, "error", {}, {}, dest, <<>>, "add")
        ELSE IF ~is_dir(f, target) THEN Out(f, "crash", {}, {}, dest, <<>>, "add")
        ELSE Out([q \in DOMAIN f \cup {dest} |-> IF q = dest THEN entry ELSE f[q]],
                 "ok", {}, {id_str_arg}, dest, <<>>, "add")

\* the two directories init and init-all make in category c, numbered n
bootstrap(f, c, n, meta, unsorted) ==
    LET meta_path == Join(c, format_jd_id(n, 0))
        unsorted_path == Join(c, format_jd_id(n, 1) \o <<" ">> \o Unsorted)
        f1 == IF meta /\ ~exists(f, meta_path) THEN mkdir(f, meta_path) ELSE f
    IN  IF unsorted /\ ~exists(f1, unsorted_path) THEN mkdir(f1, unsorted_path) ELSE f1

\* jd init CATEGORY [--meta/--no-meta] [--unsorted/--no-unsorted]
init(f, sc, category_num, meta, unsorted) ==
    IF ~IntOk(category_num) THEN Stop(f, "crash", {}, "init")
    ELSE
    LET n == IntOf(category_num)
        category == find_by_category(f, n)
        ok == {Str(n)}
    IN  IF ~enforce_scope(sc, Str(n)) THEN Stop(f, "denied", {}, "init")
        ELSE IF category = None THEN Stop(f, "error", ok, "init")
        ELSE Out(bootstrap(f, category, n, meta, unsorted), "ok", ok,
                 IF bootstrap(f, category, n, meta, unsorted) # f THEN {Str(n)} ELSE {},
                 None, <<>>, "init")

\* jd init-all: the loop over every category of the tree, which makes no
\* call of enforce_scope
RECURSIVE init_all_loop(_, _, _, _)
init_all_loop(f, cats, meta, unsorted) ==
    IF cats = <<>> THEN f
    ELSE init_all_loop(bootstrap(f, Head(cats), cat_number(Head(cats)), meta, unsorted),
                       Tail(cats), meta, unsorted)

init_all(f, meta, unsorted, dry_run) ==
    LET after == init_all_loop(f, all_categories(f), meta, unsorted)
        touched == {Fmt02(cat_number(c)) : c \in
                      {c \in Range(all_categories(f)) :
                          bootstrap(f, c, cat_number(c), meta, unsorted) # f}}
    IN  IF dry_run THEN Stop(f, "ok", {}, "init_all")
        ELSE Out(after, "ok", {}, touched, None, <<>>, "init_all")

\* _ensure_archive_dir without its dry_run test: the directory is made in a
\* dry run too
ensure_archive_dir_wet(f, parent_path, cat_num, dry_run, l) ==
    LET archive_id == Fmt02(cat_num) \o <<".", "9", "9">>
        Hit(child) == is_dir(f, child) /\ StartsWith(NameOf(child), archive_id)
        child == SelectFirst(listdir(f, parent_path, l), Hit)
        archive_path == Join(parent_path, archive_id \o <<" ">> \o Archive)
    IN  IF child # None THEN [fs |-> f, dir |-> child, crash |-> FALSE]
        ELSE IF exists(f, archive_path) THEN [fs |-> f, dir |-> archive_path, crash |-> TRUE]
        ELSE [fs |-> mkdir(f, archive_path), dir |-> archive_path, crash |-> FALSE]

\* _ensure_archive_dir: the directory it returns and the filesystem it leaves;
\* crash is the FileExistsError of mkdir on a name a file holds
ensure_archive_dir(f, parent_path, cat_num, dry_run, l) ==
    LET archive_id == Fmt02(cat_num) \o <<".", "9", "9">>
        Hit(child) == is_dir(f, child) /\ StartsWith(NameOf(child), archive_id)
        child == SelectFirst(listdir(f, parent_path, l), Hit)
        archive_path == Join(parent_path, archive_id \o <<" ">> \o Archive)
    IN  IF child # None THEN [fs |-> f, dir |-> child, crash |-> FALSE]
        ELSE IF dry_run THEN [fs |-> f, dir |-> archive_path, crash |-> FALSE]
        ELSE IF exists(f, archive_path) THEN [fs |-> f, dir |-> archive_path, crash |-> TRUE]
        ELSE [fs |-> mkdir(f, archive_path), dir |-> archive_path, crash |-> FALSE]

\* the two branches of _do_archive after the archive directory is known:
\* the existence check of the destination and the rename
archive_into(f, sc_ok, item, ens, dry_run, source, intent) ==
    LET dest == Join(ens.dir, NameOf(item))
    IN  IF ens.crash THEN Stop(f, "crash", sc_ok, intent)
        ELSE IF exists(ens.fs, dest)
        THEN Out(ens.fs, "error", sc_ok, {}, dest, <<>>, intent)
        ELSE IF dry_run THEN Out(ens.fs, "ok", sc_ok, {}, dest, <<>>, intent)
        ELSE IF rename_fails(ens.fs, item, dest)
        THEN Out(ens.fs, "crash", sc_ok, IF ens.fs # f THEN {source} ELSE {}, dest, <<>>,
                 intent)
        ELSE Out(rename(ens.fs, item, dest), "ok", sc_ok, {source}, dest, <<>>, intent)

\* _do_archive: jd mv -a SOURCE
do_archive(f, sc, source, dry_run, l) ==
    LET source_id == find_by_id(f, source)
        category == Parent(source_id)
        source_cat == find_by_category(f, IntOf(source))
        area == Parent(source_cat)
        meta_cat_num == area_number(area)
        meta_cat == find_by_category(f, meta_cat_num)
        ok == {source}
    IN  IF ~enforce_scope(sc, source) THEN Stop(f, "denied", {}, "archive")
        ELSE IF source_id # None
        THEN archive_into(f, ok, source_id,
                 ensure_archive_dir(f, category, cat_number(category), dry_run, l),
                 dry_run, source, "archive_id")
        ELSE IF ~IntOk(source) THEN Stop(f, "error", ok, "archive")
        ELSE IF source_cat = None THEN Stop(f, "error", ok, "archive")
        ELSE IF meta_cat = None THEN Stop(f, "error", ok, "archive")
        ELSE archive_into(f, ok, source_cat,
                 ensure_archive_dir(f, meta_cat, meta_cat_num, dry_run, l),
                 dry_run, source, "archive_category")

\* found.name.split(" ", 1)[1] if " " in found.name else ""
name_part_of(name) ==
    IF \E i \in 1..Len(name) : name[i] = " "
    THEN From(name, 1 + CHOOSE i \in 1..Len(name) :
                        name[i] = " " /\ \A j \in 1..(i - 1) : name[j] # " ")
    ELSE <<>>

\* the end of both branches of restore: after the rename, an archive
\* directory left with no entry, or only dot entries, is removed
cleanup_archive(f, archive_dir) ==
    IF exists(f, archive_dir) /\ \A i \in iterdir(f, archive_dir) : Head(NameOf(i)) = "."
    THEN IF iterdir(f, archive_dir) = {} THEN remove(f, archive_dir) ELSE f
    ELSE f

\* the rename of restore and what follows it
restore_move(f, ok, found, dest, archive_dir, dry_run, target, dst_id, intent) ==
    IF dry_run THEN Out(f, "ok", ok, {}, dest, dst_id, intent)
    ELSE IF rename_fails(f, found, dest) THEN Out(f, "crash", ok, {}, dest, dst_id, intent)
    ELSE Out(cleanup_archive(rename(f, found, dest), archive_dir), "ok", ok, {target},
             dest, dst_id, intent)

\* jd restore TARGET [--dry-run] [--renumber], TARGET an ID
restore_id(f, sc, target, dry_run, renumber, l) ==
    LET cat_num == Int2At(target, 1)
        cat == find_by_category(f, cat_num)
        IsArchive(child) == is_dir(f, child)
                            /\ StartsWith(NameOf(child), Fmt02(cat_num) \o <<".", "9", "9">>)
        archive_dir == SelectFirst(listdir(f, cat, l), IsArchive)
        IsItem(child) == StartsWith(NameOf(child), target)
        found == SelectFirst(listdir(f, archive_dir, l), IsItem)
        existing == find_by_id(f, target)
        new_seq == next_id(f, cat)
        new_id_str == format_jd_id(cat_num, new_seq)
        new_name == RStrip(new_id_str \o <<" ">> \o name_part_of(NameOf(found)))
        ok == {target}
    IN  IF cat = None THEN Stop(f, "error", {}, "restore_id")
        ELSE IF ~enforce_scope(sc, target) THEN Stop(f, "denied", {}, "restore_id")
        ELSE IF archive_dir = None THEN Stop(f, "error", ok, "restore_id")
        ELSE IF found = None THEN Stop(f, "error", ok, "restore_id")
        ELSE IF existing # None /\ ~renumber
        THEN Out(f, "error", ok, {}, Join(cat, NameOf(found)), target, "restore_id")
        ELSE IF existing # None /\ new_seq = 0 THEN Stop(f, "crash", ok, "restore_id")
        ELSE IF existing # None
        THEN restore_move(f, ok, found, Join(cat, new_name), archive_dir, dry_run,
                          target, new_id_str, "restore_id_renumber")
        ELSE restore_move(f, ok, found, Join(cat, NameOf(found)), archive_dir, dry_run,
                          target, target, "restore_id")

\* jd restore TARGET [--dry-run] [--renumber], TARGET a category number
restore_category(f, sc, target, dry_run, renumber, l) ==
    IF ~IntOk(target) THEN Stop(f, "error", {}, "restore_category")
    ELSE
    LET cat_num == IntOf(target)
        target_area == area_of(f, cat_num)
        meta_cat_num == area_number(target_area)
        meta_cat == find_by_category(f, meta_cat_num)
        IsArchive(child) ==
            is_dir(f, child)
            /\ StartsWith(NameOf(child), Fmt02(meta_cat_num) \o <<".", "9", "9">>)
        archive_dir == SelectFirst(listdir(f, meta_cat, l), IsArchive)
        IsItem(child) == StartsWith(NameOf(child), Fmt02(cat_num) \o <<" ">>)
        found == SelectFirst(listdir(f, archive_dir, l), IsItem)
        dest == Join(target_area, NameOf(found))
        new_num == next_category(f, target_area)
        new_name == RStrip(Fmt02(new_num) \o <<" ">> \o name_part_of(NameOf(found)))
        ok == {Str(cat_num)}
    IN  IF ~enforce_scope(sc, Str(cat_num)) THEN Stop(f, "denied", {}, "restore_category")
        ELSE IF target_area = None THEN Stop(f, "error", ok, "restore_category")
        ELSE IF meta_cat = None THEN Stop(f, "error", ok, "restore_category")
        ELSE IF archive_dir = None THEN Stop(f, "error", ok, "restore_category")
        ELSE IF found = None THEN Stop(f, "error", ok, "restore_category")
        ELSE IF exists(f, dest) /\ ~renumber
        THEN Out(f, "error", ok, {}, dest, <<>>, "restore_category")
        ELSE IF exists(f, dest) /\ new_num = -1
        THEN Stop(f, "error", ok, "restore_category")
        ELSE IF exists(f, dest)
        THEN restore_move(f, ok, found, Join(target_area, new_name), archive_dir, dry_run,
                          Str(cat_num), <<>>, "restore_category_renumber")
        ELSE restore_move(f, ok, found, dest, archive_dir, dry_run, Str(cat_num), <<>>,
                          "restore_category")

\* jd restore: an ID when the target is \d{2}\.\d{2}$, a category otherwise
restore(f, sc, target, dry_run, renumber, l) ==
    IF DottedAt(target) /\ AtEnd(target, 6)
    THEN restore_id(f, sc, target, dry_run, renumber, l)
    ELSE restore_category(f, sc, target, dry_run, renumber, l)

\* the rename that ends each branch of mv
mv_move(f, ok, old_path, new_path, dry_run, wrote, dst_id, intent) ==
    IF dry_run THEN Out(f, "ok", ok, {}, new_path, dst_id, intent)
    ELSE IF rename_fails(f, old_path, new_path)
    THEN Out(f, "crash", ok, {}, new_path, dst_id, intent)
    ELSE Out(rename(f, old_path, new_path), "ok", ok, wrote, new_path, dst_id, intent)

\* mv after its --archive and missing-destination branches
mv_to(f, sc, source, destination, dry_run) ==
    LET source_id == find_by_id(f, source)
        source_cat == IF source_id = None /\ IntOk(source)
                      THEN find_by_category(f, IntOf(source)) ELSE None
        dest_is_jd_id == parse_ok(destination)
        dest_is_cat_num == ~dest_is_jd_id /\ IntOk(destination)
        src_ok == {source}
    IN  IF source_id = None /\ source_cat = None THEN Stop(f, "error", {}, "mv")
        ELSE IF ~enforce_scope(sc, source) THEN Stop(f, "denied", {}, "mv")
        ELSE IF dest_is_jd_id
        THEN \* renumber
             LET new_cat_num == parse_jd_id_string(destination)[1]
                 new_seq == parse_jd_id_string(destination)[2]
                 target_cat == find_by_category(f, new_cat_num)
                 new_dir_name == RStrip(format_jd_id(new_cat_num, new_seq) \o <<" ">>
                                        \o id_name(source_id))
                 ok == src_ok \cup {destination}
             IN  IF ~enforce_scope(sc, destination) THEN Stop(f, "denied", src_ok, "renumber")
                 ELSE IF source_id = None THEN Stop(f, "error", ok, "renumber")
                 ELSE IF find_by_id(f, destination) # None
                 THEN Out(f, "error", ok, {}, None, destination, "renumber")
                 ELSE IF target_cat = None THEN Stop(f, "error", ok, "renumber")
                 ELSE mv_move(f, ok, source_id, Join(target_cat, new_dir_name), dry_run,
                              {source, destination},
                              format_jd_id(new_cat_num, new_seq), "renumber")
        ELSE IF dest_is_cat_num
        THEN \* refile
             LET dest_num == IntOf(destination)
                 target_cat == find_by_category(f, dest_num)
                 new_seq == next_id(f, target_cat)
                 new_id_str == format_jd_id(dest_num, new_seq)
                 new_dir_name == RStrip(new_id_str \o <<" ">> \o id_name(source_id))
                 ok == src_ok \cup {Str(dest_num)}
             IN  IF ~enforce_scope(sc, Str(dest_num)) THEN Stop(f, "denied", src_ok, "refile")
                 ELSE IF source_id = None THEN Stop(f, "error", ok, "refile")
                 ELSE IF target_cat = None THEN Stop(f, "error", ok, "refile")
                 ELSE IF new_seq = 0 THEN Stop(f, "crash", ok, "refile")
                 ELSE mv_move(f, ok, source_id, Join(target_cat, new_dir_name), dry_run,
                              {source, Str(dest_num)}, new_id_str, "refile")
        ELSE \* rename
             LET target == IF source_id # None THEN source_id ELSE source_cat
                 new_dir_name == IF source_id # None
                                 THEN id_str(source_id) \o <<" ">> \o destination
                                 ELSE Fmt02(cat_number(source_cat)) \o <<" ">> \o destination
                 new_path == Join(Parent(target), new_dir_name)
             IN  IF exists(f, new_path)
                 THEN Out(f, "error", src_ok, {}, new_path, <<>>, "rename")
                 ELSE mv_move(f, src_ok, target, new_path, dry_run, {source}, <<>>,
                              "rename")

\* jd mv [-a] SOURCE [DESTINATION] [--dry-run]; <<>> is "no destination"
mv(f, sc, source, destination, archive, dry_run, l) ==
    IF archive
    THEN IF destination # <<>> THEN Stop(f, "error", {}, "archive")
         ELSE do_archive(f, sc, source, dry_run, l)
    ELSE IF destination = <<>> THEN Stop(f, "error", {}, "mv")
    ELSE mv_to(f, sc, source, destination, dry_run)

\* _resolve_jd_path for an ID, a category number or nothing (the root)
resolve_jd_path(f, id_or_path) ==
    IF id_or_path = <<>> THEN <<>>
    ELSE IF find_by_id(f, id_or_path) # None THEN find_by_id(f, id_or_path)
    ELSE IF IntOk(id_or_path) THEN find_by_category(f, IntOf(id_or_path))
    ELSE None

\* jd policy set KEY VALUE [ID]: load_policy_file is no name of the function
\* (cli.py imports it in policy_show and policy_unset only), so the call
\* at line 1053 raises NameError before anything is written
policy_set(f, key, value, id_or_path, l) ==
    LET path == resolve_jd_path(f, id_or_path)
        meta == find_meta_dir(f, path, l)
    IN  IF path = None THEN Stop(f, "error", {}, "policy_set")
        ELSE IF meta = None THEN Stop(f, "error", {}, "policy_set")
        ELSE Stop(f, "crash", {}, "policy_set")

\* _clean_empty_dicts
RECURSIVE clean_empty_dicts(_)
clean_empty_dicts(d) ==
    LET cleaned == [k \in DOMAIN d |->
                       IF IsMap(d[k]) THEN M(clean_empty_dicts(d[k].m)) ELSE d[k]]
        keep == {k \in DOMAIN d : ~(IsMap(cleaned[k]) /\ cleaned[k].m = EmptyMap)}
    IN  [k \in keep |-> cleaned[k]]

\* jd policy unset KEY [ID], KEY the dotted path <<k1>> or <<k1, k2>> of a
\* key outside "patterns"; the handler makes no call of enforce_scope
policy_unset(f, key, id_or_path, l) ==
    LET path == resolve_jd_path(f, id_or_path)
        meta == find_meta_dir(f, path, l)
        policy_path == Join(meta, POLICY_FILENAME)
        existing == load_policy_file(f, path, l)
        base == existing.base
        found == /\ key[1] \in DOMAIN base
                 /\ Len(key) = 2 => (IsMap(base[key[1]]) /\ key[2] \in DOMAIN base[key[1]].m)
        deleted == IF Len(key) = 1 THEN [k \in DOMAIN base \ {key[1]} |-> base[k]]
                   ELSE Put(base, key[1],
                            M([k \in DOMAIN base[key[1]].m \ {key[2]} |-> base[key[1]].m[k]]))
        cleaned == clean_empty_dicts(deleted)
        where == IF id_or_path = <<>> THEN {} ELSE {id_or_path}
    IN  IF path = None THEN Stop(f, "error", {}, "policy_unset")
        ELSE IF meta = None THEN Stop(f, "error", {}, "policy_unset")
        ELSE IF existing = NoDoc \/ (existing.base = EmptyMap /\ existing.patterns = <<>>)
        THEN Stop(f, "error", {}, "policy_unset")
        ELSE IF ~found THEN Stop(f, "error", {}, "policy_unset")
        ELSE IF cleaned = EmptyMap /\ existing.patterns = <<>>
        THEN Out(remove(f, policy_path), "ok", {}, where, None, <<>>, "policy_unset")
        ELSE Out([f EXCEPT ![policy_path].doc = PolicyDoc(cleaned, existing.patterns)],
                 "ok", {}, where, None, <<>>, "policy_unset")

---------------------------------------------------------------------------
(* The command line as a state machine: one action per command, each one   *)
(* run of cli.py on the filesystem as it stands (get_root loads the tree   *)
(* anew).  hist keeps the last two runs, each with the filesystem it       *)
(* started from.                                                           *)

\* the number of commands run in one behaviour
MaxOps == 2

A00 == <<"0", "0", "-", "0", "9", " ", "S">>
A20 == <<"2", "0", "-", "2", "9", " ", "A">>
A30 == <<"3", "0", "-", "3", "9", " ", "D">>
C20 == <<"2", "0", " ", "M">>
C21 == <<"2", "1", " ", "B">>
C22 == <<"2", "2", " ", "C">>
C31 == <<"3", "1", " ", "E">>
I2000 == <<"2", "0", ".", "0", "0">>
I2101 == <<"2", "1", ".", "0", "1", " ", "U">>
I2202 == <<"2", "2", ".", "0", "2", " ", "X">>
I2201 == <<"2", "2", ".", "0", "1", " ", "U">>
I3101 == <<"3", "1", ".", "0", "1", " ", "U">>

FilesOnly == PolicyDoc([conventions |-> M([ids_files_only |-> V("true")])], <<>>)

\* a filing system with three areas; 22.02 lies in category 21 (a mismatched
\* prefix), and the meta directory of category 20 holds a policy.yaml
Tree0 ==
    [q \in {<<A00>>, <<A20>>, <<A30>>,
            <<A20, C20>>, <<A20, C20, I2000>>, <<A20, C20, I2000, POLICY_FILENAME>>,
            <<A20, C21>>, <<A20, C21, I2101>>, <<A20, C21, I2202>>,
            <<A20, C22>>, <<A20, C22, I2201>>,
            <<A30, C31>>, <<A30, C31, I3101>>} |->
        IF NameOf(q) = POLICY_FILENAME THEN [kind |-> "file", doc |-> FilesOnly]
        ELSE DirEntry]

Scopes == {Unrestricted,
           ScopeList(<< <<"2", "1">>, <<"2", "2", ".", "0", "1">> >>)}

SourceArgs == { <<"2", "1", ".", "0", "1">>, <<"2", "2", ".", "0", "2">>, <<"2", "1">> }

MvSourceArgs == { <<"2", "1", ".", "0", "1">>, <<"2", "1">> }

DestArgs == { <<"2", "2", ".", "0", "3">>, <<"2", "2", ".", "0", "1">>,
              <<"2", "2", ".", "0", "1", "x">>, <<"2", "2">>, <<"N">> }

CategoryArgs == { <<"2", "2">>, <<"3", "1">> }

AreaArgs == { <<"2", "0">> }

Init ==
    /\ fs = Tree0
    /\ scope \in Scopes
    /\ outside = {<<"a">>}
    /\ hist = <<>>
    /\ steps = 0
    /\ call = <<>>
    /\ env = NoEnv
    /\ heap = Heap0

Record(cmd, src, dst, dry_run, flag, r) ==
    [cmd |-> cmd, src |-> src, dst |-> dst, dry |-> dry_run, flag |-> flag,
     intent |-> r.intent, out |-> r.out, pre |-> fs, post |-> r.fs,
     checked |-> r.checked,
     wrote |-> r.wrote, dst_path |-> r.dst_path, dst_id |-> r.dst_id]

Ran(cmd, src, dst, dry_run, flag, r) ==
    /\ fs' = r.fs
    /\ hist' = IF Len(hist) = 2 THEN <<hist[2], Record(cmd, src, dst, dry_run, flag, r)>>
               ELSE Append(hist, Record(cmd, src, dst, dry_run, flag, r))
    /\ steps' = steps + 1
    /\ UNCHANGED <<scope, call, env, heap>>

NewId ==
    /\ steps < MaxOps
    /\ \E category \in CategoryArgs, explicit_seq \in {NoNumber, 1, 3} :
           \E r \in {new_id(fs, scope, category, <<"N">>, explicit_seq)} :
               /\ Ran("new_id", category, <<>>, FALSE, explicit_seq # NoNumber, r)
               /\ UNCHANGED outside

NewCategory ==
    /\ steps < MaxOps
    /\ \E area \in AreaArgs, explicit_num \in {NoNumber, 22}, with_init \in BOOLEAN :
           \E r \in {new_category(fs, scope, area, <<"N">>, explicit_num, with_init)} :
               /\ Ran("new_category", area, <<>>, FALSE, explicit_num # NoNumber, r)
               /\ UNCHANGED outside

Add ==
    /\ steps < MaxOps
    /\ \E source \in outside, target \in { <<"2", "1", ".", "0", "1">>,
                                           <<"3", "1", ".", "0", "1">> },
          copy \in BOOLEAN, l \in Listings :
           \E r \in {add(fs, source, "file", target, l)} :
               /\ Ran("add", target, <<>>, FALSE, copy, r)
               /\ outside' = IF r.out = "ok" /\ ~copy THEN outside \ {source} ELSE outside

InitCategory ==
    /\ steps < MaxOps
    /\ \E category \in { <<"2", "1">>, <<"3", "1">> }, unsorted \in BOOLEAN :
           \E r \in {init(fs, scope, category, TRUE, unsorted)} :
               /\ Ran("init", category, <<>>, FALSE, unsorted, r)
               /\ UNCHANGED outside

InitAll ==
    /\ steps < MaxOps
    /\ \E meta \in BOOLEAN, dry_run \in BOOLEAN :
           \E r \in {init_all(fs, meta, TRUE, dry_run)} :
               /\ Ran("init_all", <<>>, <<>>, dry_run, meta, r)
               /\ UNCHANGED outside

MvArchive ==
    /\ steps < MaxOps
    /\ \E source \in SourceArgs, dry_run \in BOOLEAN, l \in Listings :
           \E r \in {mv(fs, scope, source, <<>>, TRUE, dry_run, l)} :
               /\ Ran("mv", source, <<>>, dry_run, TRUE, r)
               /\ UNCHANGED outside

Mv ==
    /\ steps < MaxOps
    /\ \E source \in MvSourceArgs, destination \in DestArgs, dry_run \in BOOLEAN,
          l \in Listings :
           \E r \in {mv(fs, scope, source, destination, FALSE, dry_run, l)} :
               /\ Ran("mv", source, destination, dry_run, FALSE, r)
               /\ UNCHANGED outside

Restore ==
    /\ steps < MaxOps
    /\ \E target \in SourceArgs, dry_run \in BOOLEAN, renumber \in BOOLEAN, l \in Listings :
           \E r \in {restore(fs, scope, target, dry_run, renumber, l)} :
               /\ Ran("restore", target, <<>>, dry_run, renumber, r)
               /\ UNCHANGED outside

PolicySet ==
    /\ steps < MaxOps
    /\ \E target \in { <<"2", "0">>, <<"2", "1", ".", "0", "1">> }, l \in Listings :
           \E r \in {policy_set(fs, <<"conventions", "ids_files_only">>, "false", target, l)} :
               /\ Ran("policy_set", target, <<>>, FALSE, FALSE, r)
               /\ UNCHANGED outside

PolicyUnset ==
    /\ steps < MaxOps
    /\ \E target \in { <<"2", "0">>, <<"3", "1">> }, l \in Listings :
           \E r \in {policy_unset(fs, <<"conventions", "ids_files_only">>, target, l)} :
               /\ Ran("policy_unset", target, <<>>, FALSE, FALSE, r)
               /\ UNCHANGED outside

Next ==
    \/ NewId
    \/ NewCategory
    \/ Add
    \/ InitCategory
    \/ InitAll
    \/ MvArchive
    \/ Mv
    \/ Restore
    \/ PolicySet
    \/ PolicyUnset

Spec == Init /\ [][Next]_vars

---------------------------------------------------------------------------
(* The mutating commands: scope guard, conflicts, dry runs, round trip     *)

Runs == {hist[k] : k \in 1..Len(hist)}

\* C1: under a restricted scope, a run that changed the filesystem had
\* every address it wrote to allowed by enforce_scope first, and a run that
\* was refused left the filesystem as it was
C1_ScopeGuardOnEveryMutation ==
    scope.restricted =>
        \A h \in Runs :
            /\ h.post # h.pre => h.wrote # {} /\ h.wrote \subseteq h.checked
            /\ h.out = "denied" => h.post = h.pre

\* C2: a create, move, archive or restore whose destination entry exists
\* already, or whose destination ID is in use in the tree already, stops
\* (with an error message or an uncaught OSError) and leaves the filesystem
\* as it was
C2_NoOverwriteNoDuplicate ==
    \A h \in Runs :
        (/\ h.cmd \in {"new_id", "new_category", "add", "mv", "restore"}
         /\ \/ h.dst_path \in DOMAIN h.pre
            \/ h.dst_id # <<>> /\ find_by_id(h.pre, h.dst_id) # None)
        => h.out \in {"error", "crash"} /\ h.post = h.pre

\* C3: a dry run of mv (renumber, refile, rename, archive) or restore leaves
\* the filesystem exactly as it was
C3_DryRunLeavesFilesystem ==
    \A h \in Runs : h.dry /\ h.cmd \in {"mv", "restore"} => h.post = h.pre

\* a dry run archived an ID whose category had no xx.99 directory yet, and
\* reported success
C3_Witness ==
    \E h \in Runs :
        /\ h.dry /\ h.cmd = "mv" /\ h.flag /\ h.intent = "archive_id" /\ h.out = "ok"
        /\ Parent(h.dst_path) \notin DOMAIN h.pre

\* C4: an ID of the loaded tree whose category has no xx.99 directory is
\* archived, then the same ID string is restored: both succeed and the
\* filesystem is what it was before the archive
C4_ArchiveRestoreRoundTrip ==
    Len(hist) = 2 =>
        LET a == hist[1]
            b == hist[2]
            item == find_by_id(a.pre, a.src)
            IsArchive(q) ==
                StartsWith(NameOf(q), Fmt02(cat_number(Parent(item))) \o <<".", "9", "9">>)
        IN  (/\ ~scope.restricted
             /\ a.cmd = "mv" /\ a.flag /\ ~a.dry /\ item # None
             /\ \A q \in iterdir(a.pre, Parent(item)) : ~IsArchive(q)
             /\ b.cmd = "restore" /\ b.src = a.src /\ ~b.dry)
            => /\ a.out = "ok" /\ a.dst_path = Join(Join(Parent(item),
                       Fmt02(cat_number(Parent(item))) \o <<".", "9", "9", " ">> \o Archive),
                       NameOf(item))
               /\ b.out = "ok" /\ b.post = a.pre

---------------------------------------------------------------------------
(* The policy engine on its own: resolve_policy called for the directories *)
(* of a filing system whose meta directories hold policy documents.  Every *)
(* value a document sets names the place that set it.                      *)

C00 == <<"0", "0", " ", "M">>
I0000 == <<"0", "0", ".", "0", "0">>
C20b == <<"2", "0", " ", "O">>
I2100 == <<"2", "1", ".", "0", "0">>

Conv(map) == [conventions |-> M(map)]

RootDocs ==
    {NoDoc,
     PolicyDoc(Conv([ids_files_only |-> V("root"),
                     naming |-> M([separator |-> V("root")])]), <<>>)}

AreaDocs ==
    {NoDoc,
     PolicyDoc(Conv([ids_files_only |-> V("area")]), <<>>),
     PolicyDoc(Conv([meta_id |-> V("area")]),
               << [pattern |-> <<"x", "0">>, payload |-> M([meta_id |-> V("area x0")])],
                  [pattern |-> <<"*", ".", "0", "1">>,
                   payload |-> M([ids_files_only |-> V("area *.01")])] >>)}

CatDocs ==
    {NoDoc,
     PolicyDoc(Conv([ids_files_only |-> V("cat"), naming |-> M([case |-> V("cat")])]),
               <<>>),
     PolicyDoc(Conv([ids_files_only |-> V("cat")]),
               << [pattern |-> <<"2", "1">>, payload |-> M([meta_id |-> V("cat 21")])],
                  [pattern |-> <<"*", ".", "0", "1">>,
                   payload |-> M(Conv([ids_files_only |-> V("cat *.01")]))] >>)}

\* the filing system with a document (or none) in the meta directory of
\* category 00 (the root's), of category 20 (the area's) and of category 21,
\* and perhaps a second child of the area whose name starts with "20 "
PolicyTree(root_doc, area_doc, cat_doc, second) ==
    LET dirs == {<<A00>>, <<A00, C00>>, <<A00, C00, I0000>>,
                 <<A20>>, <<A20, C20>>, <<A20, C20, I2000>>,
                 <<A20, C21>>, <<A20, C21, I2100>>, <<A20, C21, I2101>>,
                 <<A20, C22>>, <<A20, C22, I2201>>, <<A30>>}
                \cup (IF second THEN {<<A20, C20b>>} ELSE {})
        docs == [q \in {<<A00, C00, I0000, POLICY_FILENAME>>,
                        <<A20, C20, I2000, POLICY_FILENAME>>,
                        <<A20, C21, I2100, POLICY_FILENAME>>} |->
                    IF q[1] = A00 THEN root_doc
                    ELSE IF q[2] = C20 THEN area_doc ELSE cat_doc]
        files == {q \in DOMAIN docs : docs[q] # NoDoc}
    IN  [q \in dirs \cup files |->
            IF q \in files THEN [kind |-> "file", doc |-> docs[q]] ELSE DirEntry]

PolicyTrees ==
    {PolicyTree(r, a, c, o) : r \in RootDocs, a \in AreaDocs, c \in CatDocs, o \in BOOLEAN}

Targets == {<<A20, C21, I2101>>, <<A20, C21, I2100>>, <<A20, C21>>, <<A20, C20>>,
            <<A20, C22, I2201>>}

InitPolicy ==
    /\ fs \in PolicyTrees
    /\ scope = Unrestricted
    /\ outside = {}
    /\ hist = <<>>
    /\ steps = 0
    /\ call = <<>>
    /\ env = NoEnv
    /\ heap = Heap0

\* resolve_policy(path, root) while the operating system lists directories in
\* order l; call keeps the last two calls
ResolvePolicy ==
    \E path \in Targets, l \in Listings :
        \E result \in {resolve_policy(fs, path, l)} :
            /\ call' = IF Len(call) = 2
                       THEN <<call[2], [path |-> path, l |-> l, result |-> result]>>
                       ELSE Append(call, [path |-> path, l |-> l, result |-> result])
            /\ UNCHANGED <<fs, scope, outside, hist, steps, env, heap>>

NextPolicy == ResolvePolicy

SpecPolicy == InitPolicy /\ [][NextPolicy]_vars

---------------------------------------------------------------------------
(* The cascade                                                             *)

Calls == {call[k] : k \in 1..Len(call)}

\* the convention keys the documents of the model set, and one they do not
Keys == {<<"ids_files_only">>, <<"meta_id">>, <<"ids_as_files">>,
         <<"naming", "separator">>, <<"naming", "case">>}

Unset == [unset |-> TRUE]

\* the value a conventions mapping holds under key k
Lookup(conv, k) ==
    IF k[1] \notin DOMAIN conv THEN Unset
    ELSE IF Len(k) = 1 THEN conv[k[1]]
    ELSE IF IsMap(conv[k[1]]) /\ k[2] \in DOMAIN conv[k[1]].m THEN conv[k[1]].m[k[2]]
    ELSE Unset

ConvOf(map) == IF "conventions" \in DOMAIN map THEN map.conventions.m ELSE EmptyMap

PayloadConv(payload) == IF "conventions" \in DOMAIN payload.m
                        THEN payload.m.conventions.m
                        ELSE payload.m

\* the patterns of document d that match name n and set key k
Setting(d, k, n) ==
    {i \in 1..Len(d.patterns) :
        /\ match_pattern(d.patterns[i].pattern, n)
        /\ Lookup(PayloadConv(d.patterns[i].payload), k) # Unset}

MaxOf(S) == CHOOSE x \in S : \A y \in S : y <= x

\* what document d sets key k to for a target named n: its last matching
\* pattern that sets k, else its own conventions
SetBy(d, k, n) ==
    IF d = NoDoc THEN Unset
    ELSE IF Setting(d, k, n) # {}
    THEN Lookup(PayloadConv(d.patterns[MaxOf(Setting(d, k, n))].payload), k)
    ELSE Lookup(ConvOf(d.base), k)

\* the document of the chain level that is the first n names of path
LevelDoc(path, n, l) == load_policy_file(fs, SubSeq(path, 1, n), l)

\* the levels of the chain of path whose document sets key k, by depth
Setters(path, k, l) ==
    {n \in 0..Len(path) : SetBy(LevelDoc(path, n, l), k, PathName(path)) # Unset}

\* the policy files of the tree
PolicyFiles == {q \in DOMAIN fs : NameOf(q) = POLICY_FILENAME}

\* C5: a path inside a category resolves to the defaults when every
\* document of the tree lies in the meta directory of another category
C5_OtherCategoryDocHasNoEffect ==
    \A c \in Calls :
        (/\ Len(c.path) >= 2
         /\ \A q \in PolicyFiles :
                /\ Len(q) = 4 /\ is_jd_category(fs, SubSeq(q, 1, 2))
                /\ q[3] = Fmt02(cat_number(SubSeq(q, 1, 2))) \o <<".", "0", "0">>
                /\ SubSeq(q, 1, 2) # SubSeq(c.path, 1, 2))
        => c.result = DEFAULTS

\* C5: a path inside a category resolves to the defaults when every
\* document of the tree lies in the meta directory of another category
\* whose number does not end in 0
C5_OtherCategoryDocHasNoEffect_Amended ==
    \A c \in Calls :
        (/\ Len(c.path) >= 2
         /\ \A q \in PolicyFiles :
                /\ Len(q) = 4 /\ is_jd_category(fs, SubSeq(q, 1, 2))
                /\ q[3] = Fmt02(cat_number(SubSeq(q, 1, 2))) \o <<".", "0", "0">>
                /\ SubSeq(q, 1, 2) # SubSeq(c.path, 1, 2)
                /\ cat_number(SubSeq(q, 1, 2)) % 10 # 0)
        => c.result = DEFAULTS

\* category 21 holds a document that sets a convention, it is the only
\* document of the tree, and an ID of category 22 was resolved
C5_Witness ==
    \E c \in Calls :
        /\ c.path = <<A20, C22, I2201>>
        /\ PolicyFiles = {<<A20, C21, I2100, POLICY_FILENAME>>}
        /\ SetBy(fs[<<A20, C21, I2100, POLICY_FILENAME>>].doc, <<"ids_files_only">>,
                 I2101) # Unset
        /\ c.result = DEFAULTS

\* C6: each convention key of the result holds what the document of the
\* nearest chain level that sets it set it to, and the default when no
\* document of the chain sets it
C6_NearestLevelWins ==
    \A c \in Calls, k \in Keys :
        Lookup(ConvOf(c.result), k) =
            IF Setters(c.path, k, c.l) = {} THEN Lookup(ConvOf(DEFAULTS), k)
            ELSE SetBy(LevelDoc(c.path, MaxOf(Setters(c.path, k, c.l)), c.l), k,
                       PathName(c.path))

\* the root's, the area's and the category's document set a key to three
\* different values, and an ID of the category was resolved
C6_Witness ==
    \E c \in Calls :
        /\ c.path = <<A20, C21, I2101>>
        /\ {0, 1, 2} \subseteq Setters(c.path, <<"ids_files_only">>, c.l)
        /\ Cardinality({SetBy(LevelDoc(c.path, n, c.l), <<"ids_files_only">>, I2101) :
                           n \in {0, 1, 2}}) = 3

\* C8: two calls of resolve_policy for the same path on the same
\* filesystem give the same result, whatever order directories are listed in
C8_ResolveDeterministic ==
    \A c \in Calls, d \in Calls : c.path = d.path => c.result = d.result

\* C10: a value of the result that a pattern's payload holds comes from a
\* pattern that matches the target's own name, and where a document's
\* matching pattern and its own conventions set the same key the result does
\* not hold the value of the document's own conventions
C10_PatternsAgainstTargetName ==
    \A c \in Calls, k \in Keys :
        /\ \A q \in PolicyFiles : \A i \in 1..Len(fs[q].doc.patterns) :
               (/\ Lookup(PayloadConv(fs[q].doc.patterns[i].payload), k) # Unset
                /\ Lookup(ConvOf(c.result), k)
                       = Lookup(PayloadConv(fs[q].doc.patterns[i].payload), k))
               => match_pattern(fs[q].doc.patterns[i].pattern, PathName(c.path))
        /\ \A n \in 0..Len(c.path) :
               (/\ LevelDoc(c.path, n, c.l) # NoDoc
                /\ Setting(LevelDoc(c.path, n, c.l), k, PathName(c.path)) # {}
                /\ Lookup(ConvOf(LevelDoc(c.path, n, c.l).base), k) # Unset)
               => Lookup(ConvOf(c.result), k)
                      # Lookup(ConvOf(LevelDoc(c.path, n, c.l).base), k)

\* the category's document sets a key in its own conventions and in a
\* pattern that matches the target, the pattern "21" of the same document
\* matches the category's name but not the target's, and the ID was resolved
C10_Witness ==
    \E c \in Calls :
        /\ c.path = <<A20, C21, I2101>>
        /\ LevelDoc(c.path, 2, c.l) # NoDoc
        /\ Setting(LevelDoc(c.path, 2, c.l), <<"ids_files_only">>, I2101) # {}
        /\ Lookup(ConvOf(LevelDoc(c.path, 2, c.l).base), <<"ids_files_only">>) # Unset
        /\ \E i \in 1..Len(LevelDoc(c.path, 2, c.l).patterns) :
               /\ match_pattern(LevelDoc(c.path, 2, c.l).patterns[i].pattern, C21)
               /\ ~match_pattern(LevelDoc(c.path, 2, c.l).patterns[i].pattern, I2101)

---------------------------------------------------------------------------
(* deep_merge on its own: calls on dictionaries of scalars, lists and      *)
(* dictionaries nested three deep                                          *)

\* every dictionary with keys among ks and values among vs
Dicts(ks, vs) == UNION {[d -> vs] : d \in SUBSET ks}

Leaves == {[z |-> V("1")], [w |-> V("2")]}

Inner ==
    {EmptyMap, [x |-> V("1")], [x |-> V("3")], [y |-> V("3")],
     [x |-> V("1"), y |-> V("2")]}
    \cup {[x |-> M(d)] : d \in Leaves}

MergeArgs ==
    Dicts({"a", "b"},
          {V("1"), L(<<"1", "2">>), L(<<"3">>)} \cup {M(d) : d \in Inner})

InitMerge ==
    /\ fs = [q \in {} |-> DirEntry]
    /\ scope = Unrestricted
    /\ outside = {}
    /\ hist = <<>>
    /\ steps = 0
    /\ call = <<>>
    /\ env = NoEnv
    /\ heap = Heap0

\* the one call of deep_merge of a behaviour
DeepMerge ==
    /\ call = <<>>
    /\ \E base \in MergeArgs, override \in MergeArgs :
           \E result \in {deep_merge(base, override)} :
               /\ call' = <<[base |-> base, override |-> override, result |-> result]>>
               /\ UNCHANGED <<fs, scope, outside, hist, steps, env, heap>>

NextMerge == DeepMerge

SpecMerge == InitMerge /\ [][NextMerge]_vars

\* r is base b with override o laid over it: a key of one side only keeps
\* that side's value, two dictionaries under one key are laid over each
\* other in the same way, and anything else is o's value whole
RECURSIVE LaidOver(_, _, _)
LaidOver(r, b, o) ==
    /\ DOMAIN r = DOMAIN b \cup DOMAIN o
    /\ \A k \in DOMAIN r :
           IF k \notin DOMAIN o THEN r[k] = b[k]
           ELSE IF k \notin DOMAIN b THEN r[k] = o[k]
           ELSE IF IsMap(b[k]) /\ IsMap(o[k])
           THEN IsMap(r[k]) /\ LaidOver(r[k].m, b[k].m, o[k].m)
           ELSE r[k] = o[k]

\* C7: the result of deep_merge is its base with its override laid over
\* it, right-biased, recursive on dictionary against dictionary only
C7_DeepMergeRightBiased ==
    \A c \in Calls : LaidOver(c.result, c.base, c.override)

\* the two examples of the contract in one call: {a: {x: 1, y: 2}, b: [1, 2]}
\* under {a: {y: 3}, b: [3]} gives {a: {x: 1, y: 3}, b: [3]}
C7_Witness ==
    \E c \in Calls :
        /\ c.base = [a |-> M([x |-> V("1"), y |-> V("2")]), b |-> L(<<"1", "2">>)]
        /\ c.override = [a |-> M([y |-> V("3")]), b |-> L(<<"3">>)]
        /\ c.result = [a |-> M([x |-> V("1"), y |-> V("3")]), b |-> L(<<"3">>)]

---------------------------------------------------------------------------
(* match_pattern on its own                                                *)

PatternArgs ==
    {p \o t : p \in { <<"*", ".", "0", "0">>, <<"*", ".", "0", "2">>, <<"*", ".", "0">>,
                      <<"*", "0", "0">>, <<".", "0", "0">>, <<"*", ".", "x", "0">>,
                      <<"x", "0">>, <<"x">>, <<"X", "0">>, <<"x", "2">>,
                      <<"2", "0">>, <<"0", "0">>, <<"2">>, <<"2", "x">>,
                      <<"2", "0", ".", "0", "0">>, <<"2", "0", ".", "0", "2">>,
                      <<"2", "0", ".", "0">>, <<"2", "0", ".">>, <<"2", "0", "-", "2", "9">>,
                      <<>> },
              t \in { <<>>, <<"\n">>, <<" ">>, <<"0">> }}

NameArgs ==
    {n \o t : n \in { <<"2", "0", ".", "0", "0">>, <<"2", "0", ".", "0", "2">>,
                      <<"0", "0", ".", "0", "0">>, <<"x", "0", ".", "0", "0">>,
                      <<"2", "0", "0", "0">>, <<"2", "0">>, <<"0", "0">>, <<"2", "2">>,
                      <<"x", "0">>, <<"2">>, <<"2", "0", ".", "0">>, <<>> },
              t \in { <<>>, <<" ">>, <<"\n">>, <<"\t", "a">>, <<" ", "a">>, <<"a">>,
                      <<"0">>, <<"\n", " ">> }}

InitMatch ==
    /\ fs = [q \in {} |-> DirEntry]
    /\ scope = Unrestricted
    /\ outside = {}
    /\ hist = <<>>
    /\ steps = 0
    /\ call = <<>>
    /\ env = NoEnv
    /\ heap = Heap0

\* the one call of match_pattern of a behaviour
MatchPattern ==
    /\ call = <<>>
    /\ \E pattern \in PatternArgs, dir_name \in NameArgs :
           /\ call' = <<[pattern |-> pattern, name |-> dir_name,
                         result |-> match_pattern(pattern, dir_name)]>>
           /\ UNCHANGED <<fs, scope, outside, hist, steps, env, heap>>

NextMatch == MatchPattern

SpecMatch == InitMatch /\ [][NextMatch]_vars

\* the four cases of the contract
Matches(pattern, name) ==
    \/ /\ Len(pattern) = 4 /\ pattern[1] = "*" /\ pattern[2] = "." /\ D2At(pattern, 3)
       /\ Len(name) >= 5 /\ D2At(name, 1) /\ name[3] = "."
       /\ SubSeq(name, 4, 5) = SubSeq(pattern, 3, 4)
       /\ (Len(name) = 5 \/ IsSpace(name[6]))
    \/ /\ pattern = <<"x", "0">>
       /\ Len(name) >= 3 /\ IsDigit(name[1]) /\ name[1] # "0" /\ name[2] = "0"
       /\ IsSpace(name[3])
    \/ /\ Len(pattern) = 2 /\ D2At(pattern, 1)
       /\ Len(name) >= 3 /\ SubSeq(name, 1, 2) = pattern /\ IsSpace(name[3])
    \/ /\ Len(pattern) = 5 /\ DottedAt(pattern)
       /\ StartsWith(name, pattern)

\* C9: match_pattern(pattern, name) is true exactly when: pattern is *.NN
\* and name is two digits, a dot, NN, then its end or whitespace; pattern
\* is x0 and name is a nonzero digit, 0, then whitespace; pattern is
\* exactly two digits and name starts with them and then whitespace;
\* pattern is exactly NN.MM and name starts with it.  Any other pattern
\* matches no name
C9_MatchPatternExactly ==
    \A c \in Calls : c.result = Matches(c.pattern, c.name)

---------------------------------------------------------------------------
(* resolve_policy on filing systems where a policy.yaml cannot be used     *)

\* documents that are no mapping with mapping-valued pattern payloads: one
\* that does not parse, a YAML sequence, and mappings whose pattern *.01 has
\* a null, a string or a list as its payload
BadDocs ==
    {Unparseable, SequenceDoc} \cup
    {PolicyDoc(Conv([ids_files_only |-> V("bad")]),
               << [pattern |-> <<"*", ".", "0", "1">>, payload |-> x] >>) :
        x \in {V("null"), V("text"), L(<< <<"a">> >>)}}

Usable(d) ==
    /\ d.form = "map"
    /\ \A i \in 1..Len(d.patterns) : IsMap(d.patterns[i].payload)

InitBadDoc ==
    /\ fs \in {PolicyTree(r, a, c, FALSE) :
                  r \in RootDocs,
                  a \in BadDocs \cup {PolicyDoc(Conv([ids_files_only |-> V("area")]), <<>>)},
                  c \in BadDocs \cup {NoDoc}}
    /\ scope = Unrestricted
    /\ outside = {}
    /\ hist = <<>>
    /\ steps = 0
    /\ call = <<>>
    /\ env = NoEnv
    /\ heap = Heap0

SpecBadDoc == InitBadDoc /\ [][NextPolicy]_vars

\* the filing system without the policy files that cannot be used
WithoutUnusable(f) ==
    [q \in {x \in DOMAIN f : NameOf(x) = POLICY_FILENAME => Usable(f[x].doc)} |-> f[q]]

\* C11: resolve_policy raises nothing whatever the policy files hold, and
\* its result is the result on the filing system without the documents that
\* cannot be used (those that do not parse, are no mapping, or hold a
\* pattern payload that is no mapping)
C11_UnusableDocumentIsAbsent ==
    \A c \in Calls :
        /\ ~IsRaised(c.result)
        /\ c.result = resolve_policy(WithoutUnusable(fs), c.path, c.l)

---------------------------------------------------------------------------
(* find_meta_dir on its own, called for the IDs of a filing system         *)

I2200 == <<"2", "2", ".", "0", "0">>
F2103 == <<"2", "1", ".", "0", "3", " ", "f">>

\* category 21 holds 21.01, the file 21.03 and 22.02 (a mismatched prefix),
\* category 22 holds 22.01; 21.00 and 22.00 may lie in category 21, and
\* 22.00 in category 22
MetaTree(m21, m22in21, m22) ==
    LET dirs == {<<A00>>, <<A20>>, <<A30>>, <<A20, C21>>, <<A20, C21, I2101>>,
                 <<A20, C21, I2202>>, <<A20, C22>>, <<A20, C22, I2201>>}
                \cup (IF m21 THEN {<<A20, C21, I2100>>} ELSE {})
                \cup (IF m22in21 THEN {<<A20, C21, I2200>>} ELSE {})
                \cup (IF m22 THEN {<<A20, C22, I2200>>} ELSE {})
    IN  [q \in dirs \cup {<<A20, C21, F2103>>} |->
            IF q = <<A20, C21, F2103>> THEN FileEntry ELSE DirEntry]

InitMeta ==
    /\ fs \in {MetaTree(a, b, c) : a \in BOOLEAN, b \in BOOLEAN, c \in BOOLEAN}
    /\ scope = Unrestricted
    /\ outside = {}
    /\ hist = <<>>
    /\ steps = 0
    /\ call = <<>>
    /\ env = NoEnv
    /\ heap = Heap0

\* find_meta_dir(path) for an ID of the loaded tree; call keeps the last two
FindMetaDir ==
    \E path \in Range(all_ids(fs)), l \in Listings :
        \E result \in {find_meta_dir(fs, path, l)} :
            /\ call' = IF Len(call) = 2
                       THEN <<call[2], [path |-> path, l |-> l, result |-> result]>>
                       ELSE Append(call, [path |-> path, l |-> l, result |-> result])
            /\ UNCHANGED <<fs, scope, outside, hist, steps, env, heap>>

NextMeta == FindMetaDir

SpecMeta == InitMeta /\ [][NextMeta]_vars

\* the xx.00 directory of the category that contains the ID
CategoryMeta(path) ==
    Join(Parent(path), Fmt02(cat_number(Parent(path))) \o <<".", "0", "0">>)

\* C12: for an ID, find_meta_dir returns the xx.00 directory of the
\* category that contains it when that directory exists and None otherwise,
\* whatever the ID's own prefix
C12_IdMetaDirOfContainingCategory ==
    \A c \in Calls :
        c.result = IF exists(fs, CategoryMeta(c.path)) THEN CategoryMeta(c.path) ELSE None

---------------------------------------------------------------------------
(* is_in_scope on its own                                                  *)

\* targets of the three shapes: area bands, category numbers, IDs
TargetArgs ==
    { <<"2", "0", "-", "2", "9">>, <<"2", "1", "-", "2", "9">>, <<"3", "0", "-", "3", "9">>,
      <<"2", "0">>, <<"2", "1">>, <<"2", "9">>, <<"3", "0">>,
      <<"2", "0", ".", "0", "1">>, <<"2", "1", ".", "0", "1">>, <<"2", "1", ".", "0", "2">>,
      <<"3", "0", ".", "0", "1">> }

\* scope patterns as a manifest may list them
ScopePatternArgs ==
    { <<"2", "0", "-", "2", "9">>, <<"2", "1", "-", "2", "1">>, <<"2", "0">>, <<"2", "1">>,
      <<"2", "1", ".", "0", "1">>, <<" ", "2", "1", " ">>, <<"2">>, <<"2", "1", ".">>,
      <<"2", "1", ".", "0">>, <<"2", "0", "-", "2">>, <<"a", "l", "l">> }

MaxPatterns == 2

ScopeArgs ==
    UNION {[1..n -> ScopePatternArgs] : n \in 0..MaxPatterns}

InitInScope ==
    /\ fs = [q \in {} |-> DirEntry]
    /\ scope = Unrestricted
    /\ outside = {}
    /\ hist = <<>>
    /\ steps = 0
    /\ call = <<>>
    /\ env = NoEnv
    /\ heap = Heap0

\* the one call of is_in_scope of a behaviour
IsInScope ==
    /\ call = <<>>
    /\ \E target \in TargetArgs, patterns \in ScopeArgs :
           /\ call' = <<[target |-> target, patterns |-> patterns,
                         result |-> is_in_scope(target, patterns)]>>
           /\ UNCHANGED <<fs, scope, outside, hist, steps, env, heap>>

NextInScope == IsInScope

SpecInScope == InitInScope /\ [][NextInScope]_vars

IsBand(s) == Len(s) = 5 /\ D2At(s, 1) /\ s[3] = "-" /\ D2At(s, 4)

IsBare(s) == Len(s) = 2 /\ D2At(s, 1)

IsDotted(s) == Len(s) = 5 /\ DottedAt(s)

\* the rules of the contract for one pattern, surrounding blanks aside
Allows(raw, target) ==
    LET pattern == Strip(raw)
    IN  \/ /\ IsBand(pattern)
           /\ Int2At(pattern, 1) <= Int2At(target, 1)
           /\ Int2At(target, 1) <= Int2At(pattern, 4)
        \/ /\ IsBare(pattern)
           /\ \/ IsBare(target) /\ target = pattern
              \/ IsDotted(target) /\ StartsWith(target, pattern \o <<".">>)
        \/ IsDotted(pattern) /\ target = pattern

\* C13: is_in_scope(target, patterns) is true exactly when some pattern
\* matches the target: a band NN-NN when the target's leading number lies in
\* it, a bare NN when the target is that category number or an ID beginning
\* with "NN.", a dotted NN.MM when the target is the same string
C13_InScopeExactly ==
    \A c \in Calls :
        c.result = \E k \in 1..Len(c.patterns) : Allows(c.patterns[k], c.target)

---------------------------------------------------------------------------
(* scope.py: finding and loading the manifest, and check_scope on it       *)

\* ./jd.yaml, and the path JD_AGENT_SCOPE holds when it is set
JdYaml == <<"j", "d", ".", "y", "a", "m", "l">>
EnvYaml == <<"e", ".", "y", "a", "m", "l">>

\* find_scope_file with a fallback to ./jd.yaml when the designated file is
\* missing
find_scope_file_fallback(e) ==
    IF e.JD_AGENT_SCOPE # <<>> /\ e.JD_AGENT_SCOPE \in DOMAIN e.manifests
    THEN e.JD_AGENT_SCOPE
    ELSE IF JdYaml \in DOMAIN e.manifests THEN JdYaml
    ELSE None

\* find_scope_file
find_scope_file(e) ==
    IF e.JD_AGENT_SCOPE # <<>>
    THEN IF e.JD_AGENT_SCOPE \in DOMAIN e.manifests THEN e.JD_AGENT_SCOPE ELSE None
    ELSE IF JdYaml \in DOMAIN e.manifests THEN JdYaml
    ELSE None

\* str(s) of an element of the scope list: a YAML string as it is, a YAML
\* integer in decimal
str(s) == IF "n" \in DOMAIN s THEN Str(s.n) ELSE s.v

\* load_scope once the file is read, with `if not scope` for
\* `scope is None`: an empty list reads as no restriction
scope_of_truthy(data) ==
    IF data = Unparseable THEN Unrestricted
    ELSE IF "scope" \notin DOMAIN data.m THEN Unrestricted
    ELSE IF data.m.scope = V("all") THEN Unrestricted
    ELSE IF "s" \in DOMAIN data.m.scope /\ data.m.scope.s # <<>>
         THEN ScopeList([k \in 1..Len(data.m.scope.s) |-> str(data.m.scope.s[k])])
    ELSE Unrestricted

\* load_scope once the file is read: data.get("scope") of a mapping
scope_of(data) ==
    IF data = Unparseable THEN Unrestricted
    ELSE IF "scope" \notin DOMAIN data.m THEN Unrestricted
    ELSE IF data.m.scope = V("all") THEN Unrestricted
    ELSE IF "s" \in DOMAIN data.m.scope
         THEN ScopeList([k \in 1..Len(data.m.scope.s) |-> str(data.m.scope.s[k])])
    ELSE Unrestricted

\* load_scope()
load_scope(e) ==
    LET scope_file == find_scope_file(e)
    IN  IF scope_file = None THEN Unrestricted ELSE scope_of(e.manifests[scope_file])

\* manifests: two scope lists of strings, a list of an integer and a
\* string, an empty list, "all", no scope key, a string where a list
\* belongs, and a file that does not parse
Manifests ==
    {M([scope |-> L(<<V(<<"2", "0", "-", "2", "9">>)>>)]),
     M([scope |-> L(<<V(<<"3", "0">>), V(<<"2", "2", ".", "0", "1">>)>>)]),
     M([scope |-> L(<<N(21), V(<<"3", "0">>)>>)]),
     M([scope |-> L(<<>>)]),
     M([scope |-> V("all")]),
     M(EmptyMap),
     M([scope |-> V("20-29")]),
     Unparseable}

Envs ==
    {[JD_AGENT_SCOPE |-> v, manifests |-> [p \in DOMAIN d |-> d[p]]] :
        v \in {<<>>, EnvYaml},
        d \in UNION {[S -> Manifests] : S \in SUBSET {JdYaml, EnvYaml}}}

CheckTargets == { <<"2", "1">>, <<"3", "0">>, <<"2", "2", ".", "0", "1">>,
                  <<"2", "0", "-", "2", "9">> }

InitScope ==
    /\ fs = [q \in {} |-> DirEntry]
    /\ scope = Unrestricted
    /\ outside = {}
    /\ hist = <<>>
    /\ steps = 0
    /\ call = <<>>
    /\ env \in Envs
    /\ heap = Heap0

\* the one call of check_scope(target) of a behaviour, in environment env
CheckScope ==
    /\ call = <<>>
    /\ \E target \in CheckTargets :
           /\ call' = <<[target |-> target, scope_file |-> find_scope_file(env),
                         scope |-> load_scope(env),
                         result |-> check_scope(load_scope(env), target)]>>
           /\ UNCHANGED <<fs, scope, outside, hist, steps, env, heap>>

NextScope == CheckScope

SpecScope == InitScope /\ [][NextScope]_vars

\* C14: check_scope returns (allowed, no message) when the loaded scope is
\* unrestricted; otherwise it allows exactly when is_in_scope holds, a
\* denial carries a message naming the target and the scope list, and a
\* message is present exactly with a denial
C14_CheckScopeResult ==
    \A c \in Calls :
        /\ ~c.scope.restricted => c.result = <<TRUE, None>>
        /\ c.scope.restricted => c.result[1] = is_in_scope(c.target, c.scope.patterns)
        /\ ~c.result[1] => c.result[2] = OutOfScope(c.target, c.scope.patterns)
        /\ c.result[2] # None <=> ~c.result[1]

\* under the manifest scope: ["20-29"], check_scope("30") was denied
C14_Witness ==
    \E c \in Calls :
        /\ c.scope = ScopeList(<< <<"2", "0", "-", "2", "9">> >>)
        /\ c.target = <<"3", "0">>
        /\ c.result = <<FALSE, OutOfScope(c.target, c.scope.patterns)>>

\* C15: when JD_AGENT_SCOPE designates a path, the scope is read from that
\* file alone and is unrestricted when the file does not exist, whatever
\* ./jd.yaml holds; when it designates none, the scope is read from
\* ./jd.yaml, and is unrestricted when that does not exist either
C15_ManifestPriority ==
    \A c \in Calls :
        LET designated == env.JD_AGENT_SCOPE
        IN  /\ designated # <<>> /\ designated \in DOMAIN env.manifests
                => c.scope_file = designated /\ c.scope = scope_of(env.manifests[designated])
            /\ designated # <<>> /\ designated \notin DOMAIN env.manifests
                => c.scope_file = None /\ c.scope = Unrestricted
                   /\ c.result = <<TRUE, None>>
            /\ designated = <<>> /\ JdYaml \in DOMAIN env.manifests
                => c.scope_file = JdYaml /\ c.scope = scope_of(env.manifests[JdYaml])
            /\ designated = <<>> /\ JdYaml \notin DOMAIN env.manifests
                => c.scope_file = None /\ c.scope = Unrestricted

\* JD_AGENT_SCOPE names a file that does not exist while ./jd.yaml lists
\* only 20-29, and check_scope("30") allowed
C15_Witness ==
    \E c \in Calls :
        /\ env.JD_AGENT_SCOPE = EnvYaml /\ EnvYaml \notin DOMAIN env.manifests
        /\ JdYaml \in DOMAIN env.manifests
        /\ scope_of(env.manifests[JdYaml]) = ScopeList(<< <<"2", "0", "-", "2", "9">> >>)
        /\ c.target = <<"3", "0">>
        /\ c.result = <<TRUE, None>>

-----------------------------------------------------------------------------
(* Loading a tree that holds symbolic links                                *)

A40 == <<"4", "0", "-", "4", "9", " ", "X">>
A50 == <<"5", "0", "-", "5", "9", " ", "L">>
C23 == <<"2", "3", " ", "X">>
C24 == <<"2", "4", " ", "L">>
I2105 == <<"2", "1", ".", "0", "5", " ", "X">>
I2106 == <<"2", "1", ".", "0", "6", " ", "L">>
I2107 == <<"2", "1", ".", "0", "7">>

\* the links a tree may hold: broken ones named like an area, a category and
\* an ID (with and without a title), and links to a directory at each level
BrokenLinks == {<<A40>>, <<A20, C23>>, <<A20, C21, I2105>>, <<A20, C21, I2107>>}

DirLinks == {<<A50>>, <<A20, C24>>, <<A20, C21, I2106>>}

LinkTree(links) ==
    [q \in DOMAIN Tree0 \cup links |->
        IF q \in BrokenLinks THEN BrokenLink
        ELSE IF q \in DirLinks THEN DirLink
        ELSE Tree0[q]]

InitLoad ==
    /\ fs \in {LinkTree(links) : links \in SUBSET (BrokenLinks \cup DirLinks)}
    /\ scope = Unrestricted
    /\ outside = {}
    /\ hist = <<>>
    /\ steps = 0
    /\ call = <<>>
    /\ env = NoEnv
    /\ heap = Heap0

\* JDSystem(root): the areas, categories and IDs of the loaded tree
Load ==
    /\ call = <<>>
    /\ call' = <<[areas |-> areas(fs), categories |-> all_categories(fs),
                  ids |-> all_ids(fs)]>>
    /\ UNCHANGED <<fs, scope, outside, hist, steps, env, heap>>

NextLoad == Load

SpecLoad == InitLoad /\ [][NextLoad]_vars

\* C16: after a load no area, category or ID of the tree (an ID that is a
\* file included) is a symbolic link whose target does not resolve
C16_NoBrokenSymlinkLoaded ==
    \A c \in Calls :
        \A p \in Range(c.areas) \cup Range(c.categories) \cup Range(c.ids) :
            ~(is_symlink(fs, p) /\ ~is_symlink_valid(fs, p))

-----------------------------------------------------------------------------
(* util.py: recognising a root and finding it from a starting path.  Here   *)
(* the paths of fs start at the root of the filesystem.                     *)

\* a directory whose listing raises PermissionError
DeniedDir == [kind |-> "dir", doc |-> NoDoc, denied |-> TRUE]

\* is_jd_root with the threshold lowered to 2
is_jd_root_two(f, directory) ==
    IF "denied" \in DOMAIN f[directory] THEN FALSE
    ELSE LET children == {d \in iterdir(f, directory) :
                             is_dir(f, d) /\ Head(NameOf(d)) # "."}
         IN  Cardinality({d \in children : is_jd_area(f, d)}) >= 2

is_jd_root(f, directory) ==
    IF "denied" \in DOMAIN f[directory] THEN FALSE
    ELSE LET children == {d \in iterdir(f, directory) :
                             is_dir(f, d) /\ Head(NameOf(d)) # "."}
         IN  Cardinality({d \in children : is_jd_area(f, d)}) >= 3

\* Path.home()
Home == << <<"h", "o", "m", "e">>, <<"u">> >>

is_in_user_home(directory) == StartsWith(directory, Home)

\* Path.parent: the root of the filesystem is its own parent
parent(path) == IF path = <<>> THEN <<>> ELSE Parent(path)

\* the loop of get_jd_root_dir: examined lists the directories handed to
\* is_jd_root so far
RECURSIVE walk_up(_, _, _)
walk_up(f, path, examined) ==
    IF ~is_jd_root(f, path) /\ is_in_user_home(path)
    THEN walk_up(f, parent(path), Append(examined, path))
    ELSE [path |-> path, examined |-> Append(examined, path)]

get_jd_root_dir(f, start_path) ==
    LET w == walk_up(f, start_path, <<>>)
    IN  [examined |-> Append(w.examined, w.path),
         out |-> IF is_jd_root(f, w.path) THEN [returned |-> w.path]
                 ELSE [raised |-> "NotJohnnyDecimalDirectoryError", path |-> w.path]]

Docs == Home \o <<RootName>>

Work == Docs \o << <<"w">> >>

\* the directories above and below the home directory that may hold areas
Holders == {Parent(Home), Home, Docs}

AreaCounts == {0, 2, 3, 4}

\* area-shaped children, the last a link to a directory
AreaChildren(n) == {(<<A00, A20, A30, A50>>)[k] : k \in 1..n}

\* children that are no area directories: a dot-prefixed directory, a plain
\* directory, a file and a broken link with area-shaped names
DotDir == <<".", "2", "0", "-", "2", "9", " ", "A">>
A60 == <<"6", "0", "-", "6", "9", " ", "F">>
Others == {DotDir, <<"z">>, A60, A40}

RootTree(count, others, denied) ==
    LET spine == {SubSeq(Work, 1, k) : k \in 0..Len(Work)}
        kids == UNION {{Join(d, a) : a \in AreaChildren(count[d])} : d \in Holders}
        noise == IF others THEN {Join(d, o) : d \in Holders, o \in Others} ELSE {}
    IN  [q \in spine \cup kids \cup noise |->
            IF q \in denied THEN DeniedDir
            ELSE IF q \in spine THEN DirEntry
            ELSE IF NameOf(q) = A50 THEN DirLink
            ELSE IF NameOf(q) = A60 THEN FileEntry
            ELSE IF NameOf(q) = A40 THEN BrokenLink
            ELSE DirEntry]

InitRoot ==
    /\ fs \in {RootTree(count, others, denied) :
                  count \in [Holders -> AreaCounts], others \in BOOLEAN,
                  denied \in {{}, {Docs}}}
    /\ scope = Unrestricted
    /\ outside = {}
    /\ hist = <<>>
    /\ steps = 0
    /\ call = <<>>
    /\ env = NoEnv
    /\ heap = Heap0

\* the one call is_jd_root(directory) of a behaviour
IsJdRoot ==
    /\ call = <<>>
    /\ \E directory \in Holders \cup {Work} :
           /\ call' = <<[op |-> "is_jd_root", directory |-> directory,
                         result |-> is_jd_root(fs, directory)]>>
           /\ UNCHANGED <<fs, scope, outside, hist, steps, env, heap>>

\* the one call get_jd_root_dir(start_path) of a behaviour
GetJdRootDir ==
    /\ call = <<>>
    /\ \E start_path \in {Work, Docs, Home} :
           \E r \in {get_jd_root_dir(fs, start_path)} :
               /\ call' = <<[op |-> "get_jd_root_dir", start_path |-> start_path,
                             examined |-> r.examined, out |-> r.out]>>
               /\ UNCHANGED <<fs, scope, outside, hist, steps, env, heap>>

NextRoot == IsJdRoot \/ GetJdRootDir

SpecRoot == InitRoot /\ [][NextRoot]_vars

\* the area-shaped directories directly inside d whose names do not start
\* with a dot
AreaDirsIn(d) ==
    {q \in DOMAIN fs : /\ Len(q) = Len(d) + 1 /\ SubSeq(q, 1, Len(d)) = d
                       /\ fs[q].kind = "dir" /\ Head(NameOf(q)) # "."
                       /\ AreaName(NameOf(q))}

\* C17: a directory is recognised as a root exactly when at least 3 of its
\* immediate subdirectories that are not dot-prefixed are area-shaped: not
\* with 2, with 3 or more it is, whatever other children it has.  A
\* directory whose listing is refused shows no children to the program.
C17_RootIffThreeAreas ==
    \A c \in Calls :
        c.op = "is_jd_root" =>
            LET seen == IF fs[c.directory] = DeniedDir THEN {}
                        ELSE AreaDirsIn(c.directory)
            IN  /\ c.result <=> Cardinality(seen) >= 3
                /\ Cardinality(seen) = 2 => ~c.result

\* is_jd_root accepted a directory with exactly 3 area directories, one of
\* them a link, among other children
C17_Witness ==
    \E c \in Calls :
        /\ c.op = "is_jd_root" /\ c.directory = Docs /\ c.result
        /\ Cardinality(AreaDirsIn(Docs)) = 3
        /\ Join(Docs, DotDir) \in DOMAIN fs

\* the start and its ancestors up to the home directory, nearest first
UpToHome(start) == [k \in 1..(Len(start) - Len(Home) + 1) |-> SubSeq(start, 1, Len(start) + 1 - k)]

\* C18: from a starting path inside the home directory, root discovery
\* examines the start and its ancestors nearest first, returns the first
\* that is a root, and stops at the home directory: nothing above the home
\* directory is examined or returned, and when none up to and including
\* the home directory is a root it fails with NotJohnnyDecimalDirectory
C18_DiscoveryStopsAtHome ==
    \A c \in Calls :
        c.op = "get_jd_root_dir" /\ is_in_user_home(c.start_path) =>
            LET ancestors == UpToHome(c.start_path)
                roots == {k \in 1..Len(ancestors) : is_jd_root(fs, ancestors[k])}
            IN  /\ \A k \in 1..Len(c.examined) : is_in_user_home(c.examined[k])
                /\ roots # {} =>
                       c.out = [returned |->
                                    ancestors[CHOOSE k \in roots : \A j \in roots : k <= j]]
                /\ roots = {} => "raised" \in DOMAIN c.out
                                 /\ c.out.raised = "NotJohnnyDecimalDirectoryError"
                /\ \A k \in 1..(Len(c.examined) - 1) :
                       Len(c.examined[k]) >= Len(c.examined[k + 1])

-----------------------------------------------------------------------------
(* models.py: duplicate IDs                                                *)

\* find_duplicates pairing each repeat with the occurrence before it
RECURSIVE scan_ids_last(_, _, _)
scan_ids_last(rest, seen, dupes) ==
    IF rest = <<>> THEN dupes
    ELSE LET jd_id == Head(rest)
             s == id_str(jd_id)
         IN  IF s \in DOMAIN seen
             THEN scan_ids_last(Tail(rest), [seen EXCEPT ![s] = jd_id],
                                Append(dupes, <<s, seen[s], jd_id>>))
             ELSE scan_ids_last(Tail(rest), seen @@ (s :> jd_id), dupes)

\* the loop of find_duplicates over the IDs still to visit
RECURSIVE scan_ids(_, _, _)
scan_ids(rest, seen, dupes) ==
    IF rest = <<>> THEN dupes
    ELSE LET jd_id == Head(rest)
             s == id_str(jd_id)
         IN  IF s \in DOMAIN seen
             THEN scan_ids(Tail(rest), seen, Append(dupes, <<s, seen[s], jd_id>>))
             ELSE scan_ids(Tail(rest), seen @@ (s :> jd_id), dupes)

find_duplicates_last(f) == scan_ids_last(all_ids(f), [x \in {} |-> <<>>], <<>>)

\* JDSystem.find_duplicates
find_duplicates(f) == scan_ids(all_ids(f), [x \in {} |-> <<>>], <<>>)

\* entries that repeat an ID string of Tree0: in the same category, in other
\* categories and areas, as a file, and a second xx.00
Repeats ==
    {<<A20, C21, <<"2", "1", ".", "0", "1", " ", "V">> >>,
     <<A20, C22, <<"2", "1", ".", "0", "1", " ", "W">> >>,
     <<A30, C31, <<"2", "1", ".", "0", "1", " ", "Z">> >>,
     <<A20, C21, <<"2", "2", ".", "0", "2", " ", "f">> >>,
     <<A20, C22, <<"2", "2", ".", "0", "2", " ", "Y">> >>,
     <<A20, C20, <<"2", "0", ".", "0", "0", " ", "M">> >>,
     <<A30, C31, <<"3", "1", ".", "0", "2", " ", "N">> >>}

RepeatTree(extra) ==
    [q \in DOMAIN Tree0 \cup extra |->
        IF q \in DOMAIN Tree0 THEN Tree0[q]
        ELSE IF NameOf(q)[Len(NameOf(q))] = "f" THEN FileEntry
        ELSE DirEntry]

InitDup ==
    /\ fs \in {RepeatTree(extra) : extra \in SUBSET Repeats}
    /\ scope = Unrestricted
    /\ outside = {}
    /\ hist = <<>>
    /\ steps = 0
    /\ call = <<>>
    /\ env = NoEnv
    /\ heap = Heap0

\* the one call of find_duplicates of a behaviour, on the loaded tree
FindDuplicates ==
    /\ call = <<>>
    /\ \E r \in {find_duplicates(fs)} :
           /\ call' = <<[ids |-> all_ids(fs), dupes |-> r]>>
           /\ UNCHANGED <<fs, scope, outside, hist, steps, env, heap>>

NextDup == FindDuplicates

SpecDup == InitDup /\ [][NextDup]_vars

\* the positions of the ID string s among the IDs in tree order
Occurrences(ids_, s) == {k \in 1..Len(ids_) : id_str(ids_[k]) = s}

\* C19: for every ID string that occurs k times in the tree find_duplicates
\* reports exactly k-1 entries, each pairing the path of the first
\* occurrence in tree order with the path of one later occurrence, every
\* later occurrence once; a string that occurs once has no entry
C19_DuplicatesPairWithFirst ==
    \A c \in Calls :
        /\ \A j \in 1..Len(c.dupes) : Occurrences(c.ids, c.dupes[j][1]) # {}
        /\ \A s \in {id_str(c.ids[k]) : k \in 1..Len(c.ids)} :
               LET occ == Occurrences(c.ids, s)
                   first == CHOOSE k \in occ : \A j \in occ : k <= j
                   entries == {j \in 1..Len(c.dupes) : c.dupes[j][1] = s}
               IN  /\ Cardinality(entries) = Cardinality(occ) - 1
                   /\ \A j \in entries : c.dupes[j][2] = c.ids[first]
                   /\ {c.dupes[j][3] : j \in entries} = {c.ids[k] : k \in occ \ {first}}

\* an ID string that occurs three times was reported twice, and another
\* that occurs once not at all
C19_Witness ==
    \E c \in Calls :
        /\ \E s \in {id_str(c.ids[k]) : k \in 1..Len(c.ids)} :
               /\ Cardinality(Occurrences(c.ids, s)) = 3
               /\ Cardinality({j \in 1..Len(c.dupes) : c.dupes[j][1] = s}) = 2
        /\ \E s \in {id_str(c.ids[k]) : k \in 1..Len(c.ids)} :
               /\ Cardinality(Occurrences(c.ids, s)) = 1
               /\ \A j \in 1..Len(c.dupes) : c.dupes[j][1] # s

-----------------------------------------------------------------------------
(* models.py: the next free sequence of a category                         *)

\* the entry of category 21 B that carries sequence n: 21.00 for 0, an ID
\* with the prefix of another category for 3, a file for 5
SeqName(n) ==
    IF n = 0 THEN I2100
    ELSE IF n = 3 THEN <<"2", "2", ".", "0", "3", " ", "X">>
    ELSE <<"2", "1", ".">> \o Fmt02(n) \o <<" ", "T">>

SeqTree(used) ==
    [q \in {<<A00>>, <<A20>>, <<A30>>, <<A20, C21>>, <<A20, C22>>, <<A20, C22, I2201>>}
           \cup {<<A20, C21, SeqName(n)>> : n \in used} |->
        IF Len(q) = 3 /\ q[2] = C21 /\ sequence(q) = 5 THEN FileEntry ELSE DirEntry]

\* the sets of used sequences: the small ones, and those at and next to a
\* full category
UsedSets ==
    (SUBSET {0, 1, 2, 3, 5, 99})
    \cup {1..99, 0..99, 2..99, 0..98, 1..98, (1..99) \ {50}, (0..99) \ {50}, (0..99) \ {1}}

InitNextId ==
    /\ fs \in {SeqTree(used) : used \in UsedSets}
    /\ scope = Unrestricted
    /\ outside = {}
    /\ hist = <<>>
    /\ steps = 0
    /\ call = <<>>
    /\ env = NoEnv
    /\ heap = Heap0

\* the one call of next_id of a behaviour, on a category of the loaded tree
NextId ==
    /\ call = <<>>
    /\ \E category \in Range(all_categories(fs)) :
           \E r \in {next_id(fs, category)} :
               /\ call' = <<[category |-> category, result |-> r]>>
               /\ UNCHANGED <<fs, scope, outside, hist, steps, env, heap>>

NextNextId == NextId

SpecNextId == InitNextId /\ [][NextNextId]_vars

\* the sequences of the ID-named entries directly inside category c
UsedIn(c) ==
    {Int2At(NameOf(q), 4) :
        q \in {x \in DOMAIN fs : Len(x) = Len(c) + 1 /\ SubSeq(x, 1, Len(c)) = c
                                 /\ IdName(NameOf(x))}}

\* C20: next_id returns the smallest number of 1..99 that is the sequence
\* of no ID of the category, never 0 even when sequence 0 is unused, and
\* fails (the category is full) exactly when all of 1..99 are used
C20_NextIdSmallestFree ==
    \A c \in Calls :
        LET used == UsedIn(c.category)
            full == \A n \in 1..99 : n \in used
        IN  /\ full <=> c.result = 0
            /\ ~full => /\ c.result \in (1..99) \ used
                        /\ \A m \in 1..(c.result - 1) : m \in used

\* with the sequences 0, 1 and 5 used next_id gave 2
C20_Witness ==
    \E c \in Calls : UsedIn(c.category) = {0, 1, 5} /\ c.result = 2

-----------------------------------------------------------------------------
(* util.py, models.py: formatting and parsing an address                    *)

\* the digits of the strings handed to the parser
DigitArgs == {"0", "1", "9", ArabicThree}

\* every string of the form two digits, dot, two digits over DigitArgs
DottedArgs ==
    {<<a, b, ".", c, d>> : a \in DigitArgs, b \in DigitArgs, c \in DigitArgs, d \in DigitArgs}

\* what follows the address in a directory name
TitleArgs == {<<>>, <<" ", "U">>, <<" ", " ", "U">>}

InitAddr ==
    /\ fs = Tree0
    /\ scope = Unrestricted
    /\ outside = {}
    /\ hist = <<>>
    /\ steps = 0
    /\ call = <<>>
    /\ env = NoEnv
    /\ heap = Heap0

\* parse_jd_id_string(format_jd_id(category, sequence))
FormatThenParse ==
    /\ call = <<>>
    /\ \E category \in 0..99, sequence_ \in 0..99 :
           \E text \in {format_jd_id(category, sequence_)} :
               /\ call' = <<[op |-> "format", category |-> category,
                             sequence |-> sequence_, text |-> text,
                             parsed |-> IF parse_ok(text) THEN parse_jd_id_string(text)
                                        ELSE <<"ValueError">>]>>
               /\ UNCHANGED <<fs, scope, outside, hist, steps, env, heap>>

\* format_jd_id(*parse_jd_id_string(x))
ParseThenFormat ==
    /\ call = <<>>
    /\ \E x \in DottedArgs :
           \E parsed \in {parse_jd_id_string(x)} :
               /\ parse_ok(x)
               /\ call' = <<[op |-> "parse", x |-> x, parsed |-> parsed,
                             text |-> format_jd_id(parsed[1], parsed[2])]>>
               /\ UNCHANGED <<fs, scope, outside, hist, steps, env, heap>>

\* JDID(path).id_str for a directory named by an address and a title
ParseName ==
    /\ call = <<>>
    /\ \E x \in DottedArgs, title \in TitleArgs :
           /\ IdName(x \o title)
           /\ call' = <<[op |-> "name", name |-> x \o title,
                         id_str |-> id_str(<<A20, C21, x \o title>>)]>>
           /\ UNCHANGED <<fs, scope, outside, hist, steps, env, heap>>

NextAddr == FormatThenParse \/ ParseThenFormat \/ ParseName

SpecAddr == InitAddr /\ [][NextAddr]_vars

\* C21: parse_jd_id_string(format_jd_id(c, s)) = (c, s) for all c and s of
\* 0..99; format_jd_id applied to parse_jd_id_string(x) gives x back for
\* every string x of two digits, a dot and two digits; and the id_str of an
\* ID parsed from a directory name is the leading xx.yy of the name
C21_AddressRoundTrip ==
    \A c \in Calls :
        /\ c.op = "format" => c.parsed = <<c.category, c.sequence>>
        /\ c.op = "parse" => c.text = c.x
        /\ c.op = "name" => c.id_str = SubSeq(c.name, 1, 5)

-----------------------------------------------------------------------------
(* util.py: classifying a directory by its name                            *)

\* names put together from a two-character start, a third character and a
\* rest, and the names shorter than three characters
StartArgs == {<<"2", "1">>, <<"2", ArabicThree>>, <<"2", "A">>, <<"A", "1">>}

ThirdArgs == {"-", EnDash, ".", " ", "A", "\n"}

RestArgs ==
    {<<>>, <<"U">>, <<" ", "U">>, <<"\n">>, <<"2", "9">>, <<"2", "9", " ">>,
     <<"2", "9", " ", "A">>, <<"2", "9", " ", "\n">>, <<"2", "9", "A">>,
     <<"2", "9", "\n">>, <<"0", "1", " ", " ">>, <<"0", "1", " ", "U">>, <<"2", "A", " ", "A">>,
     <<"2", "9", "-", "3", "0", " ", "A">>, <<"2", "1", ".", "0", "1", " ", "U">>,
     <<"2", "9", " ", "2", "1", " ", "B">>}

ClassifyArgs ==
    {<<"2">>, <<"2", "1">>}
    \cup {a \o <<b>> \o c : a \in StartArgs, b \in ThirdArgs, c \in RestArgs}

InitClassify ==
    /\ fs = Tree0
    /\ scope = Unrestricted
    /\ outside = {}
    /\ hist = <<>>
    /\ steps = 0
    /\ call = <<>>
    /\ env = NoEnv
    /\ heap = Heap0

\* is_jd_area, is_jd_category and is_jd_id on one entry, a directory or a
\* file, with the name given
Classify ==
    /\ call = <<>>
    /\ \E name \in ClassifyArgs, entry \in {DirEntry, FileEntry} :
           \E f \in {[q \in {<<name>>} |-> entry]} :
               /\ call' = <<[name |-> name, entry |-> entry,
                             area |-> is_jd_area(f, <<name>>),
                             category |-> is_jd_category(f, <<name>>),
                             id |-> is_jd_id(f, <<name>>)]>>
               /\ UNCHANGED <<fs, scope, outside, hist, steps, env, heap>>

NextClassify == Classify

SpecClassify == InitClassify /\ [][NextClassify]_vars

\* the category pattern by itself: two digits, a space, text
CategoryPattern(name) == D2At(name, 1) /\ CharAt(name, 3, " ") /\ DotPlusAt(name, 4)

\* C22: no name is classified as more than one of Area, ID and Category; a
\* name matching the Area or the ID pattern is never classified as a
\* Category; and a name matching none of the three patterns is classified
\* as none of them
C22_ClassificationExclusive ==
    \A c \in Calls :
        /\ ~(c.area /\ c.id) /\ ~(c.area /\ c.category) /\ ~(c.id /\ c.category)
        /\ AreaName(c.name) \/ IdName(c.name) => ~c.category
        /\ ~AreaName(c.name) /\ ~IdName(c.name) /\ ~CategoryPattern(c.name)
               => ~c.area /\ ~c.id /\ ~c.category

\* the directory 21.01 U, which starts with two digits as a category does,
\* was classified as an ID only
C22_Witness ==
    \E c \in Calls :
        /\ c.entry = DirEntry
        /\ c.name = <<"2", "1", ".", "0", "1", " ", "U">>
        /\ c.id /\ ~c.area /\ ~c.category

-----------------------------------------------------------------------------
(* cli.py: restore from an archive whose items meet live ones               *)

Archive21 == <<A20, C21, <<"2", "1", ".", "9", "9", " ">> \o Archive>>

Archive20 == <<A20, C20, <<"2", "0", ".", "9", "9", " ">> \o Archive>>

\* archived IDs of category 21 and archived categories of area 20-29: with
\* the name of a live item, with its number under another name, and with a
\* number no live item has
ArchivedArgs ==
    {Join(Archive21, I2101), Join(Archive21, <<"2", "1", ".", "0", "1", " ", "O">>),
     Join(Archive21, <<"2", "1", ".", "0", "3", " ", "Z">>),
     Join(Archive20, C22), Join(Archive20, <<"2", "2", " ", "O">>),
     Join(Archive20, <<"2", "3", " ", "Z">>)}

\* a live ID 21.03 kept in category 22
LiveArgs == {<<A20, C22, <<"2", "1", ".", "0", "3", " ", "W">> >>}

ArchiveTree(items) ==
    [q \in DOMAIN Tree0 \cup items \cup {Parent(i) : i \in items \cap ArchivedArgs} |->
        IF q \in DOMAIN Tree0 THEN Tree0[q] ELSE DirEntry]

InitRestore ==
    /\ fs \in {ArchiveTree(items) : items \in SUBSET (ArchivedArgs \cup LiveArgs)}
    /\ scope = Unrestricted
    /\ outside = {}
    /\ hist = <<>>
    /\ steps = 0
    /\ call = <<>>
    /\ env = NoEnv
    /\ heap = Heap0

RestoreArgs ==
    {<<"2", "1", ".", "0", "1">>, <<"2", "1", ".", "0", "3">>, <<"2", "2">>, <<"2", "3">>}

\* the one jd restore of a behaviour
RestoreArchived ==
    /\ steps = 0
    /\ \E target \in RestoreArgs, dry_run \in BOOLEAN, renumber \in BOOLEAN,
          l \in Listings :
           \E r \in {restore(fs, scope, target, dry_run, renumber, l)} :
               /\ Ran("restore", target, <<>>, dry_run, renumber, r)
               /\ UNCHANGED outside

NextRestore == RestoreArchived

SpecRestore == InitRestore /\ [][NextRestore]_vars

\* the archived entries of f that restore TARGET can pick: inside an xx.99
\* directory of a category, named TARGET... for an ID and "TARGET ..." for
\* a category
ArchivedFor(f, target) ==
    {q \in DOMAIN f :
        /\ Len(q) = 4
        /\ Len(q[3]) >= 5 /\ SubSeq(q[3], 3, 5) = <<".", "9", "9">>
        /\ StartsWith(q[4], IF Len(target) = 2 THEN target \o <<" ">> ELSE target)}

\* a live ID or category of f has the number TARGET
LiveFor(f, target) ==
    IF Len(target) = 2 THEN find_by_category(f, IntOf(target)) # None
    ELSE find_by_id(f, target) # None

\* no ID string and no category number twice among the live items of f
NoRepeats(f) ==
    /\ \A i, j \in Range(all_ids(f)) : id_str(i) = id_str(j) => i = j
    /\ \A c, d \in Range(all_categories(f)) : cat_number(c) = cat_number(d) => c = d

\* C23: restoring an archived ID or category whose number a live item of the
\* tree has already, whatever the live item's name, fails without
\* renumbering and leaves the filesystem as it was; with renumbering the
\* item is restored under the next available number; and no restore
\* leaves two live items with the same ID or the same category number
C23_RestoreConflict ==
    \A h \in Runs :
        h.cmd = "restore" /\ ArchivedFor(h.pre, h.src) # {} =>
            /\ LiveFor(h.pre, h.src) /\ ~h.flag => h.out = "error" /\ h.post = h.pre
            /\ LiveFor(h.pre, h.src) /\ h.flag /\ ~h.dry =>
                   /\ h.out = "ok"
                   /\ \E q \in ArchivedFor(h.pre, h.src) :
                          /\ q \notin DOMAIN h.post
                          /\ h.dst_path \in DOMAIN h.post \ DOMAIN h.pre
                          /\ name_part_of(NameOf(h.dst_path)) = name_part_of(NameOf(q))
                   /\ IF Len(h.src) = 2
                      THEN cat_number(h.dst_path) = next_category(h.pre, Parent(h.dst_path))
                      ELSE sequence(h.dst_path) = next_id(h.pre, Parent(h.dst_path))
            /\ NoRepeats(h.pre) => NoRepeats(h.post)

-----------------------------------------------------------------------------
(* cli.py: mv with a destination                                           *)

\* destinations: an ID, category numbers, names, and texts that start with
\* an ID or are a number of another length
MvDestArgs ==
    {<<"2", "2", ".", "0", "3">>, <<"2", "1", ".", "0", "1">>,
     <<"2", "2">>, <<"3", "1">>, <<"9", "9">>,
     <<"N">>, <<"2", "2", ".", "0">>,
     <<"2", "0", "2", "2">>, <<"0", "2", "2">>,
     <<"2", "2", ".", "0", "3", " ", "T">>, <<"2", "2", ".", "0", "3", "x">>}

MvSources ==
    {<<"2", "1", ".", "0", "1">>, <<"2", "2", ".", "0", "2">>, <<"3", "1", ".", "0", "1">>,
     <<"2", "1">>}

I2203 == <<"2", "2", ".", "0", "3", " ", "U">>

InitMv ==
    /\ fs \in {Tree0, ArchiveTree({<<A20, C22, I2203>>})}
    /\ scope = Unrestricted
    /\ outside = {}
    /\ hist = <<>>
    /\ steps = 0
    /\ call = <<>>
    /\ env = NoEnv
    /\ heap = Heap0

\* the one jd mv SOURCE DESTINATION of a behaviour
MvOnce ==
    /\ steps = 0
    /\ \E source \in MvSources, destination \in MvDestArgs, dry_run \in BOOLEAN :
           \E r \in {mv(fs, scope, source, destination, FALSE, dry_run, "ascending")} :
               /\ Ran("mv", source, destination, dry_run, FALSE, r)
               /\ UNCHANGED outside

NextMv == MvOnce

SpecMv == InitMv /\ [][NextMv]_vars

\* what the destination text is: an ID xx.yy, a category number xx, or any
\* other text
DestinationKind(destination) ==
    IF Len(destination) = 5 /\ DottedAt(destination) THEN "renumber"
    ELSE IF Len(destination) = 2 /\ IntOk(destination) THEN "refile"
    ELSE "rename"

\* the entry the source argument names
SourceEntry(f, source) ==
    IF find_by_id(f, source) # None THEN find_by_id(f, source)
    ELSE IF IntOk(source) THEN find_by_category(f, IntOf(source))
    ELSE None

\* C24: mv decides its action from the destination alone: an ID renumbers
\* the source ID to exactly that ID, a category number refiles the source
\* ID into that category under the category's next available sequence with
\* its name kept, any other text renames the source, an ID or a category,
\* with its number unchanged; and a mv that acts renames exactly one
\* directory entry and changes nothing else
C24_MvByDestination ==
    \A h \in Runs :
        (h.cmd = "mv" /\ ~h.flag /\ ~h.dry /\ SourceEntry(h.pre, h.src) # None) =>
            LET old == SourceEntry(h.pre, h.src)
                new == h.dst_path
                kind == DestinationKind(h.dst)
            IN  /\ h.intent = kind
                /\ h.out # "ok" => h.post = h.pre
                /\ h.out = "ok" =>
                       /\ new \notin DOMAIN h.pre
                       /\ h.post = rename(h.pre, old, new)
                       /\ kind = "renumber" =>
                              /\ id_str(new) = h.dst
                              /\ Parent(new) = find_by_category(h.pre, Int2At(h.dst, 1))
                              /\ id_name(new) = id_name(old)
                       /\ kind = "refile" =>
                              /\ Parent(new) = find_by_category(h.pre, IntOf(h.dst))
                              /\ id_cat_number(new) = IntOf(h.dst)
                              /\ sequence(new) = next_id(h.pre, Parent(new))
                              /\ id_name(new) = id_name(old)
                       /\ kind = "rename" =>
                              /\ Parent(new) = Parent(old)
                              /\ NameOf(new) =
                                     (IF Len(h.src) = 5 THEN id_str(old)
                                      ELSE Fmt02(cat_number(old))) \o <<" ">> \o h.dst

-----------------------------------------------------------------------------
(* cli.py: the names the mutating commands give to what they create or      *)
(* move                                                                     *)

InitProduce ==
    /\ fs \in {ArchiveTree(items) :
                  items \in SUBSET {Join(Archive21, I2101), Join(Archive20, C22),
                                    Join(Archive20, <<"2", "3", " ", "Z">>)}}
    /\ scope = Unrestricted
    /\ outside = {}
    /\ hist = <<>>
    /\ steps = 0
    /\ call = <<>>
    /\ env = NoEnv
    /\ heap = Heap0

\* jd new id CATEGORY N [--at SEQ]
ProduceNewId ==
    /\ steps = 0
    /\ \E category \in CategoryArgs, explicit_seq \in {NoNumber, 0, 3, 99, 100} :
           \E r \in {new_id(fs, scope, category, <<"N">>, explicit_seq)} :
               /\ Ran("new_id", category, <<>>, FALSE, explicit_seq # NoNumber, r)
               /\ UNCHANGED outside

\* jd new category AREA N [--at NUM] [--init/--no-init]
ProduceNewCategory ==
    /\ steps = 0
    /\ \E area \in {<<"2", "0">>, <<"3", "5">>}, explicit_num \in {NoNumber, 24, 29, 30, 100},
          with_init \in BOOLEAN :
           \E r \in {new_category(fs, scope, area, <<"N">>, explicit_num, with_init)} :
               /\ Ran("new_category", area, <<>>, FALSE, explicit_num # NoNumber, r)
               /\ UNCHANGED outside

\* jd init CATEGORY [--no-meta] [--no-unsorted]
ProduceInit ==
    /\ steps = 0
    /\ \E category \in {<<"2", "1">>, <<"3", "1">>}, meta \in BOOLEAN, unsorted \in BOOLEAN :
           \E r \in {init(fs, scope, category, meta, unsorted)} :
               /\ Ran("init", category, <<>>, FALSE, unsorted, r)
               /\ UNCHANGED outside

\* jd init-all
ProduceInitAll ==
    /\ steps = 0
    /\ \E meta \in BOOLEAN, unsorted \in BOOLEAN :
           \E r \in {init_all(fs, meta, unsorted, FALSE)} :
               /\ Ran("init_all", <<>>, <<>>, FALSE, meta, r)
               /\ UNCHANGED outside

\* jd mv SOURCE DESTINATION
ProduceMv ==
    /\ steps = 0
    /\ \E source \in MvSources,
          destination \in {<<"2", "2", ".", "0", "3">>, <<"2", "2">>, <<"3", "1">>, <<"N">>} :
           \E r \in {mv(fs, scope, source, destination, FALSE, FALSE, "ascending")} :
               /\ Ran("mv", source, destination, FALSE, FALSE, r)
               /\ UNCHANGED outside

\* jd restore TARGET [--renumber]
ProduceRestore ==
    /\ steps = 0
    /\ \E target \in RestoreArgs, renumber \in BOOLEAN :
           \E r \in {restore(fs, scope, target, FALSE, renumber, "ascending")} :
               /\ Ran("restore", target, <<>>, FALSE, renumber, r)
               /\ UNCHANGED outside

NextProduce ==
    \/ ProduceNewId
    \/ ProduceNewCategory
    \/ ProduceInit
    \/ ProduceInitAll
    \/ ProduceMv
    \/ ProduceRestore

SpecProduce == InitProduce /\ [][NextProduce]_vars

\* the entries a run made or gave a name to: the target of the rename of mv
\* and restore, everything new for the commands that create directories
Produced(h) ==
    IF h.post = h.pre THEN {}
    ELSE IF h.cmd \in {"mv", "restore"} THEN {h.dst_path}
    ELSE DOMAIN h.post \ DOMAIN h.pre

\* name starts with exactly two digits
StartsWithCategoryAddress(name) ==
    D2At(name, 1) /\ (Len(name) >= 3 => ~IsDigit(name[3]))

\* name starts with two digits, a dot and exactly two digits
StartsWithIdAddress(name) ==
    DottedAt(name) /\ (Len(name) >= 6 => ~IsDigit(name[6]))

\* C25: every directory name a mutating command produces (new id and new
\* category with or without an explicit number, init, init-all, mv
\* renumber, refile and rename, restore) starts with an address of the
\* grammar: exactly two digits for a category, two digits, a dot and
\* exactly two digits for an ID
C25_ProducedNamesInGrammar ==
    \A h \in Runs :
        \A q \in Produced(h) :
            /\ Len(q) = 2 => StartsWithCategoryAddress(NameOf(q))
            /\ Len(q) = 3 => StartsWithIdAddress(NameOf(q))
            /\ Len(q) \in {2, 3}

-----------------------------------------------------------------------------
(* cli.py: the scope check of the commands that take a category number      *)

C05 == <<"0", "5", " ", "F">>

Archive00 == <<A00, C00, <<"0", "0", ".", "9", "9", " ">> \o Archive>>

\* Tree0 with a category 05, an archived category 07 and an archived
\* category 23
ScopedTree ==
    [q \in DOMAIN Tree0
           \cup {<<A00, C05>>, <<A00, C00>>, Archive00,
                 Join(Archive00, <<"0", "7", " ", "G">>),
                 Archive20, Join(Archive20, <<"2", "3", " ", "Z">>)} |->
        IF q \in DOMAIN Tree0 THEN Tree0[q] ELSE DirEntry]

ManifestPatterns ==
    {<<"0", "5">>, <<"0", "7">>, <<"2", "1">>, <<"2", "2">>, <<"2", "3">>,
     <<"0", "0", "-", "0", "9">>, <<"2", "0", "-", "2", "9">>}

InitCatScope ==
    /\ fs = ScopedTree
    /\ scope \in {ScopeList(ps) : ps \in {<<a>> : a \in ManifestPatterns}
                                        \cup {<<a, b>> : a \in ManifestPatterns,
                                                         b \in ManifestPatterns}}
    /\ outside = {}
    /\ hist = <<>>
    /\ steps = 0
    /\ call = <<>>
    /\ env = NoEnv
    /\ heap = Heap0

\* jd new id CATEGORY N
ScopedNewId ==
    /\ steps = 0
    /\ \E category \in {<<"0", "5">>, <<"2", "2">>} :
           \E r \in {new_id(fs, scope, category, <<"N">>, NoNumber)} :
               /\ Ran("new_id", category, <<>>, FALSE, FALSE, r)
               /\ UNCHANGED outside

\* jd init CATEGORY
ScopedInit ==
    /\ steps = 0
    /\ \E category \in {<<"0", "5">>, <<"2", "2">>} :
           \E r \in {init(fs, scope, category, TRUE, TRUE)} :
               /\ Ran("init", category, <<>>, FALSE, FALSE, r)
               /\ UNCHANGED outside

\* jd mv 21.01 CATEGORY
ScopedRefile ==
    /\ steps = 0
    /\ \E category \in {<<"0", "5">>, <<"2", "2">>} :
           \E r \in {mv(fs, scope, <<"2", "1", ".", "0", "1">>, category, FALSE, FALSE,
                        "ascending")} :
               /\ Ran("mv", <<"2", "1", ".", "0", "1">>, category, FALSE, FALSE, r)
               /\ UNCHANGED outside

\* jd restore CATEGORY
ScopedRestore ==
    /\ steps = 0
    /\ \E category \in {<<"0", "7">>, <<"2", "3">>} :
           \E r \in {restore(fs, scope, category, FALSE, FALSE, "ascending")} :
               /\ Ran("restore", category, <<>>, FALSE, FALSE, r)
               /\ UNCHANGED outside

NextCatScope == ScopedNewId \/ ScopedInit \/ ScopedRefile \/ ScopedRestore

SpecCatScope == InitCatScope /\ [][NextCatScope]_vars

\* the manifest lists category c: as the two-digit pattern of c or as an
\* area band that includes c
ManifestHolds(patterns, c) ==
    \E k \in 1..Len(patterns) :
        \/ patterns[k] = c
        \/ /\ Len(patterns[k]) = 5 /\ patterns[k][3] = "-"
           /\ Int2At(patterns[k], 1) <= IntOf(c) /\ IntOf(c) <= Int2At(patterns[k], 4)

\* C26: when the manifest holds category c, new id, init, refile into c
\* and restore of category c pass the scope check for c, for the
\* categories 00..09 as for any other
C26_CategoryInManifestPasses ==
    \A h \in Runs :
        LET c == IF h.cmd = "mv" THEN h.dst ELSE h.src
        IN  (/\ ManifestHolds(scope.patterns, c)
             /\ h.cmd = "mv" => is_in_scope(h.src, scope.patterns))
            => h.out # "denied"

-----------------------------------------------------------------------------
(* cli.py: the commands that choose a number themselves                     *)

InitAuto ==
    /\ fs \in {ArchiveTree(items) : items \in SUBSET (ArchivedArgs \cup LiveArgs)}
    /\ scope = Unrestricted
    /\ outside = {}
    /\ hist = <<>>
    /\ steps = 0
    /\ call = <<>>
    /\ env = NoEnv
    /\ heap = Heap0

\* jd new id CATEGORY N
AutoNewId ==
    /\ steps = 0
    /\ \E category \in {<<"2", "1">>, <<"2", "2">>, <<"3", "1">>} :
           \E r \in {new_id(fs, scope, category, <<"N">>, NoNumber)} :
               /\ Ran("new_id", category, <<>>, FALSE, FALSE, r)
               /\ UNCHANGED outside

\* jd mv ID CATEGORY
AutoRefile ==
    /\ steps = 0
    /\ \E source \in {<<"2", "1", ".", "0", "1">>, <<"3", "1", ".", "0", "1">>},
          category \in {<<"2", "1">>, <<"2", "2">>, <<"3", "1">>} :
           \E r \in {mv(fs, scope, source, category, FALSE, FALSE, "ascending")} :
               /\ Ran("mv", source, category, FALSE, FALSE, r)
               /\ UNCHANGED outside

\* jd restore --renumber ID
AutoRestore ==
    /\ steps = 0
    /\ \E target \in {<<"2", "1", ".", "0", "1">>, <<"2", "1", ".", "0", "3">>},
          l \in Listings :
           \E r \in {restore(fs, scope, target, FALSE, TRUE, l)} :
               /\ Ran("restore", target, <<>>, FALSE, TRUE, r)
               /\ UNCHANGED outside

NextAuto == AutoNewId \/ AutoRefile \/ AutoRestore

SpecAuto == InitAuto /\ [][NextAuto]_vars

\* C27: after new id without an explicit sequence, mv refile, or restore
\* with renumbering, find_duplicates on the reloaded tree reports no pair
\* that it did not report before the command
C27_AutoNumberNoNewDuplicate ==
    \A h \in Runs :
        h.intent \in {"new_id", "refile", "restore_id_renumber"} =>
            Range(find_duplicates(h.post)) \subseteq Range(find_duplicates(h.pre))

-----------------------------------------------------------------------------
(* scope.py: which manifests restrict                                       *)

\* C28: the loaded scope restricts exactly when the scope value of the
\* manifest is a sequence; "all", a missing scope key and a value that is
\* no sequence load as unrestricted; a sequence loads as the list of its
\* elements as strings, in order; and under an empty sequence check_scope
\* denies the target
C28_RestrictsIffSequence ==
    \A c \in Calls :
        c.scope_file # None /\ env.manifests[c.scope_file] # Unparseable =>
            LET data == env.manifests[c.scope_file].m
                listed == "scope" \in DOMAIN data /\ "s" \in DOMAIN data.scope
            IN  /\ c.scope.restricted <=> listed
                /\ ~listed => c.scope = Unrestricted /\ c.result = <<TRUE, None>>
                /\ listed =>
                       /\ Len(c.scope.patterns) = Len(data.scope.s)
                       /\ \A k \in 1..Len(data.scope.s) :
                              LET e == data.scope.s[k]
                                  p == c.scope.patterns[k]
                              IN  IF "n" \in DOMAIN e
                                  THEN IntOk(p) /\ IntOf(p) = e.n /\ (Len(p) > 1 => p[1] # "0")
                                  ELSE p = e.v
                       /\ data.scope.s = <<>> => ~c.result[1]

\* the manifest holds scope: [] and check_scope("21") was denied
C28_Witness ==
    \E c \in Calls :
        /\ c.scope_file # None
        /\ env.manifests[c.scope_file] = M([scope |-> L(<<>>)])
        /\ c.target = <<"2", "1">>
        /\ c.scope = ScopeList(<<>>)
        /\ ~c.result[1]

-----------------------------------------------------------------------------
(* policy.py: what deep_merge and resolve_policy do to the objects they are *)
(* given                                                                    *)

MaxResolves == 2

\* arguments of deep_merge, nested up to three deep
HeapArgs ==
    Dicts({"a", "b"},
          {V("1"), L(<<"3">>), M([x |-> V("1")]), M([x |-> M([z |-> V("1")])])})

InitHeap ==
    /\ fs \in PolicyTrees
    /\ scope = Unrestricted
    /\ outside = {}
    /\ hist = <<>>
    /\ steps = 0
    /\ call = <<>>
    /\ env = NoEnv
    /\ heap = Heap0

\* deep_merge(base, override) on two dicts made for the call
DeepMergeOnHeap ==
    /\ call = <<>>
    /\ \E base \in HeapArgs, override \in HeapArgs :
           \E b \in {load(heap, M(base))} :
               \E o \in {load(b.heap, M(override))} :
                   \E r \in {deep_merge_at(o.heap, b.cell.ref, o.cell.ref)} :
                       /\ heap' = r.heap
                       /\ call' = <<[op |-> "deep_merge", pre |-> o.heap, post |-> r.heap,
                                     base |-> b.cell.ref, override |-> o.cell.ref,
                                     result |-> r.at, path |-> <<>>, l |-> "ascending"]>>
                       /\ UNCHANGED <<fs, scope, outside, hist, env>>
                       /\ steps' = MaxResolves

\* resolve_policy(path, root), one call after another in one process
ResolveOnHeap ==
    /\ steps < MaxResolves
    /\ \E path \in Targets, l \in Listings :
           \E r \in {resolve_policy_at(heap, fs, path, l)} :
               /\ heap' = r.heap
               /\ call' = (IF Len(call) = 2 THEN Tail(call) ELSE call)
                          \o <<[op |-> "resolve_policy", pre |-> heap, post |-> r.heap,
                                base |-> DefaultsAt, override |-> 0,
                                result |-> r.at, path |-> path, l |-> l]>>
               /\ steps' = steps + 1
               /\ UNCHANGED <<fs, scope, outside, hist, env>>

NextHeap == DeepMergeOnHeap \/ ResolveOnHeap

SpecHeap == InitHeap /\ [][NextHeap]_vars

\* the documents resolve_policy reads for a call
PoliciesRead(c) ==
    {k \in 1..Len(chain(c.path)) : load_policy_file(fs, chain(c.path)[k], c.l) # NoDoc}

\* C29: deep_merge and resolve_policy leave every object that existed
\* before the call as it was (the arguments of deep_merge at every depth,
\* and the objects of DEFAULTS); DEFAULTS holds its original values in
\* every state; and a resolution that reads no document returns the values
\* of DEFAULTS
C29_NoArgumentMutated ==
    /\ value_at(heap, DefaultsAt) = DEFAULTS
    /\ \A c \in Calls :
           /\ \A a \in 1..Len(c.pre) : c.post[a] = c.pre[a]
           /\ c.op = "resolve_policy" /\ PoliciesRead(c) = {}
                  => value_at(c.post, c.result) = DEFAULTS

\* after a resolution whose documents replaced a key of the nested naming
\* dict, a second resolution that read no document returned the defaults
C29_Witness ==
    /\ Len(call) = 2
    /\ call[1].op = "resolve_policy" /\ PoliciesRead(call[1]) # {}
    /\ value_at(call[1].post, call[1].result).conventions.m.naming
           # DEFAULTS.conventions.m.naming
    /\ call[2].op = "resolve_policy" /\ PoliciesRead(call[2]) = {}
    /\ value_at(call[2].post, call[2].result) = DEFAULTS

-----------------------------------------------------------------------------
(* util.py: get_jd_root_dir one turn of its loop at a time.  call holds    *)
(* the frame of the running call: the path variable, what Path.home() is,  *)
(* where the call stands, and whether the turns taken so far are odd.      *)

\* directory.is_relative_to(home)
is_relative_to(directory, home) == StartsWith(directory, home)

\* home directories: the user's, the directory above it, and the root of
\* the filesystem
Homes == {Home, Parent(Home), <<>>}

InitWalk ==
    /\ fs \in {RootTree(count, FALSE, {}) : count \in [Holders -> AreaCounts]}
    /\ scope = Unrestricted
    /\ outside = {}
    /\ hist = <<>>
    /\ steps = 0
    /\ call = <<>>
    /\ env = NoEnv
    /\ heap = Heap0

\* get_jd_root_dir(start_path) is called
WalkStart ==
    /\ call = <<>>
    /\ \E start_path \in {Work, Docs, Home, Parent(Home), <<>>}, home \in Homes :
           call' = <<[op |-> "get_jd_root_dir", start_path |-> start_path, home |-> home,
                      path |-> start_path, pc |-> "while", odd |-> FALSE]>>
    /\ UNCHANGED <<fs, scope, outside, hist, steps, env, heap>>

\* the loop condition holds: path = path.parent
WalkUp ==
    /\ call # <<>> /\ call[1].pc = "while"
    /\ ~is_jd_root(fs, call[1].path) /\ is_relative_to(call[1].path, call[1].home)
    /\ call' = <<[call[1] EXCEPT !.path = parent(call[1].path), !.odd = ~call[1].odd]>>
    /\ UNCHANGED <<fs, scope, outside, hist, steps, env, heap>>

\* the loop condition fails: return path, or raise
WalkEnd ==
    /\ call # <<>> /\ call[1].pc = "while"
    /\ ~(~is_jd_root(fs, call[1].path) /\ is_relative_to(call[1].path, call[1].home))
    /\ call' = <<[call[1] EXCEPT !.pc = IF is_jd_root(fs, call[1].path) THEN "returned"
                                        ELSE "raised"]>>
    /\ UNCHANGED <<fs, scope, outside, hist, steps, env, heap>>

NextWalk == WalkStart \/ WalkUp \/ WalkEnd

\* a running call goes on running: the interpreter takes the next turn of
\* the loop, and leaves the loop when its condition fails
SpecWalk == InitWalk /\ [][NextWalk]_vars /\ WF_vars(WalkUp) /\ WF_vars(WalkEnd)

Walking == call # <<>> /\ call[1].pc = "while"

Walked == call # <<>> /\ call[1].pc \in {"returned", "raised"}

\* C30: every call of get_jd_root_dir, from every starting path and under
\* every home directory, the root of the filesystem included, comes to
\* return a root or to raise NotJohnnyDecimalDirectoryError
C30_DiscoveryTerminates == Walking ~> Walked

=============================================================================
